---- MODULE Spec2Model ----
(***************************************************************************)
(* A model of the Balatrust core: the card model (card.rs), hand detection *)
(* (hand.rs), hand levels and the scoring pipeline (scoring.rs), joker     *)
(* effect resolution (joker.rs) and the run / blind state machine (run.rs, *)
(* blind.rs, deck.rs, shop.rs).                                            *)
(*                                                                         *)
(* Indices into card slices are 0-based as in the source; the i-th card of *)
(* a slice `cards` (0-based) is cards[i + 1] here.                         *)
(***************************************************************************)
EXTENDS Integers, Sequences, FiniteSets, TLC

\* ------------------------------------------------------------------------
\* Bounds of the model
\* ------------------------------------------------------------------------

\* Longest slice of played cards handed to detect_hand / calculate_score.
MaxCards == 6

\* Highest hand level of the level tables the scoring inputs are drawn from.
MaxLevel == 2

\* Most joker slots filled when the slots are evaluated.
MaxJokers == 3

\* The highest ante a run advances to.
MaxAnte == 2

\* Hand positions 0 .. MaxToggleIdx - 1 are the ones ToggleCard is raised for.
MaxToggleIdx == 4

\* Most ToggleCard actions processed in a run.
MaxToggles == 4

\* The Hook picks its two cards among the first HookSpan hand positions.
HookSpan == 3

\* Most calls of RunState methods in one call sequence, the calls of
\* toggle_select between them not counted.
MaxCalls == 4

\* Hand positions 0 .. MaxSelectIdx are the ones toggle_select is called with.
MaxSelectIdx == 5

\* Shop positions 0 .. MaxShopIdx are the ones buy_shop_item is called with.
MaxShopIdx == 2

\* Joker and consumable positions 0 .. MaxSlotIdx are the ones sell_joker,
\* use_planet and use_tarot are called with.
MaxSlotIdx == 2

\* Most calls in a sequence of beat_blind, buy_shop_item, sell_joker,
\* reroll_shop, use_planet and use_tarot calls.
MaxShopCalls == 9

\* Most calls in a sequence of beat_blind, reroll_shop and Shop::reroll
\* calls.
MaxRerollCalls == 5

\* Seeds 0 .. MaxSeed are the ones RunState::with_seed is called with.
MaxSeed == 2

\* Most calls made on the first of two runs of one seed.
MaxSeedCalls == 4

\* Positions 0 .. MaxSeedIdx are the ones toggle_select and buy_shop_item
\* are called with on the two runs.
MaxSeedIdx == 1

\* Most calls in a sequence of calls of the methods that move cards, the
\* calls of toggle_select between them not counted.
MaxCardCalls == 5

\* The ante the runs that are followed to their end have come to.
LastAnte == 8

\* Most calls in a sequence of start_blind, skip_blind, use_hand and
\* use_discard calls.
MaxCounterCalls == 8

\* ------------------------------------------------------------------------
\* card.rs
\* ------------------------------------------------------------------------

Suit_ALL == <<"Spades", "Hearts", "Diamonds", "Clubs">>

Suits == {Suit_ALL[i] : i \in 1..4}

Ten == 10

Jack == 11

Queen == 12

King == 13

Ace == 14

Ranks == 2..Ace

Enhancements == {"None", "Bonus", "Mult", "Wild", "Glass", "Steel", "Stone", "Gold", "Lucky"}

Editions == {"Base", "Foil", "Holographic", "Polychrome"}

\* Rank::chip_value
rank_chip_value(rank) ==
    IF rank <= 9 THEN rank
    ELSE IF rank <= King THEN 10
    ELSE 11

\* PlayingCard { rank, suit, enhancement, edition, seal, debuffed }
PlayingCard(rank, suit, enhancement, edition, debuffed) ==
    [rank |-> rank, suit |-> suit, enhancement |-> enhancement,
     edition |-> edition, seal |-> "None", debuffed |-> debuffed]

\* PlayingCard::new
PlayingCard_new(rank, suit) == PlayingCard(rank, suit, "None", "Base", FALSE)

\* f64 values.  Every f64 the card pipeline produces is a small dyadic
\* rational (integers, 1.5, 2.0, 3.0 and their sums and products), which an
\* f64 holds exactly; it is kept here as num / den in lowest terms, den a
\* power of two, so that equal values are equal records.
RECURSIVE F64(_, _)
F64(n, d) ==
    IF d > 1 /\ n % 2 = 0 /\ d % 2 = 0 THEN F64(n \div 2, d \div 2)
    ELSE [num |-> n, den |-> d]

F64FromInt(k) == F64(k, 1)

F64AddInt(a, k) == F64(a.num + k * a.den, a.den)

F64Mul(a, b) == F64(a.num * b.num, a.den * b.den)

F64Ceil(a) == (a.num + a.den - 1) \div a.den

\* PlayingCard::chip_value
chip_value(card) ==
    IF card.debuffed THEN 0
    ELSE LET base == IF card.enhancement = "Stone" THEN 50 ELSE rank_chip_value(card.rank)
             bonus == IF card.enhancement = "Bonus" THEN 30 ELSE 0
             edition_bonus == IF card.edition = "Foil" THEN 50 ELSE 0
         IN  base + bonus + edition_bonus

\* PlayingCard::mult_bonus
mult_bonus(card) ==
    IF card.debuffed THEN 0
    ELSE LET enh == IF card.enhancement = "Mult" THEN 4 ELSE 0
             ed == IF card.edition = "Holographic" THEN 10 ELSE 0
         IN  enh + ed

\* PlayingCard::x_mult
x_mult(card) ==
    IF card.debuffed THEN F64FromInt(1)
    ELSE LET enh == IF card.enhancement = "Glass" THEN F64FromInt(2) ELSE F64FromInt(1)
             ed == IF card.edition = "Polychrome" THEN F64(3, 2) ELSE F64FromInt(1)
         IN  F64Mul(enh, ed)

\* PlayingCard::is_wild
is_wild(card) == card.enhancement = "Wild"

\* PlayingCard::always_scores
always_scores(card) == card.enhancement = "Stone"

\* ------------------------------------------------------------------------
\* hand.rs
\* ------------------------------------------------------------------------

PokerHand_ALL ==
    <<"HighCard", "Pair", "TwoPair", "ThreeOfAKind", "Straight", "Flush",
      "FullHouse", "FourOfAKind", "StraightFlush", "RoyalFlush",
      "FiveOfAKind", "FlushHouse", "FlushFive">>

PokerHands == {PokerHand_ALL[i] : i \in 1..Len(PokerHand_ALL)}

\* The derived Ord of PokerHand: the position of the variant in the enum.
PokerHandOrd(hand) == CHOOSE i \in 1..Len(PokerHand_ALL) : PokerHand_ALL[i] = hand

\* PokerHand::base_chips
base_chips(hand) ==
    CASE hand = "HighCard" -> 5
      [] hand = "Pair" -> 10
      [] hand = "TwoPair" -> 20
      [] hand = "ThreeOfAKind" -> 30
      [] hand = "Straight" -> 30
      [] hand = "Flush" -> 35
      [] hand = "FullHouse" -> 40
      [] hand = "FourOfAKind" -> 60
      [] hand = "StraightFlush" -> 100
      [] hand = "RoyalFlush" -> 100
      [] hand = "FiveOfAKind" -> 120
      [] hand = "FlushHouse" -> 140
      [] hand = "FlushFive" -> 160

\* PokerHand::base_mult
base_mult(hand) ==
    CASE hand = "HighCard" -> 1
      [] hand = "Pair" -> 2
      [] hand = "TwoPair" -> 2
      [] hand = "ThreeOfAKind" -> 3
      [] hand = "Straight" -> 4
      [] hand = "Flush" -> 4
      [] hand = "FullHouse" -> 4
      [] hand = "FourOfAKind" -> 7
      [] hand = "StraightFlush" -> 8
      [] hand = "RoyalFlush" -> 8
      [] hand = "FiveOfAKind" -> 12
      [] hand = "FlushHouse" -> 14
      [] hand = "FlushFive" -> 16

\* PokerHand::level_up_chips
level_up_chips(hand) ==
    CASE hand = "HighCard" -> 10
      [] hand = "Pair" -> 15
      [] hand = "TwoPair" -> 20
      [] hand = "ThreeOfAKind" -> 20
      [] hand = "Straight" -> 30
      [] hand = "Flush" -> 15
      [] hand = "FullHouse" -> 25
      [] hand = "FourOfAKind" -> 30
      [] hand \in {"StraightFlush", "RoyalFlush"} -> 40
      [] hand = "FiveOfAKind" -> 35
      [] hand = "FlushHouse" -> 40
      [] hand = "FlushFive" -> 50

\* PokerHand::level_up_mult
level_up_mult(hand) ==
    CASE hand = "HighCard" -> 1
      [] hand = "Pair" -> 1
      [] hand = "TwoPair" -> 1
      [] hand = "ThreeOfAKind" -> 2
      [] hand = "Straight" -> 3
      [] hand = "Flush" -> 2
      [] hand = "FullHouse" -> 2
      [] hand = "FourOfAKind" -> 3
      [] hand \in {"StraightFlush", "RoyalFlush"} -> 4
      [] hand = "FiveOfAKind" -> 3
      [] hand = "FlushHouse" -> 4
      [] hand = "FlushFive" -> 3

\* A finite set of naturals as the ascending sequence of its elements.
RECURSIVE Ascending(_)
Ascending(S) ==
    IF S = {} THEN <<>>
    ELSE LET m == CHOOSE x \in S : \A y \in S : x <= y
         IN  <<m>> \o Ascending(S \ {m})

\* (0..n).collect()
all_indices(n) == [i \in 1..n |-> i - 1]

\* The set of the elements of a sequence.
Range(s) == {s[i] : i \in 1..Len(s)}

\* rank_freq of detect_hand: for every rank present, the indices of the cards
\* of that rank, in the order the enumeration pushes them (ascending).
rank_freq(cards) ==
    [r \in {cards[i].rank : i \in 1..Len(cards)} |->
        Ascending({i - 1 : i \in {j \in 1..Len(cards) : cards[j].rank = r}})]

\* groups.sort_by(size descending, then rank descending) of detect_hand: the
\* sequence of (rank, indices) pairs.  Ranks are distinct, so the order is
\* total and does not depend on the HashMap's iteration order.
RECURSIVE sorted_groups(_, _)
sorted_groups(freq, ranks) ==
    IF ranks = {} THEN <<>>
    ELSE LET first ==
                 CHOOSE r \in ranks : \A q \in ranks :
                     \/ Len(freq[r]) > Len(freq[q])
                     \/ Len(freq[r]) = Len(freq[q]) /\ r >= q
         IN  <<[rank |-> first, indices |-> freq[first]]>>
                 \o sorted_groups(freq, ranks \ {first})

\* is_flush of detect_hand
is_flush(cards) ==
    /\ Len(cards) >= 5
    /\ \E target_suit \in Suits :
           \A i \in 1..Len(cards) : cards[i].suit = target_suit \/ is_wild(cards[i])

\* Mutant of check_straight: the ace-low run is forgotten.
check_straight_no_ace_low(cards) ==
    /\ Len(cards) = 5
    /\ Cardinality({cards[i].rank : i \in 1..Len(cards)}) = 5
    /\ \A i, j \in 1..Len(cards) : cards[i].rank - cards[j].rank <= 4

\* check_straight
check_straight(cards) ==
    IF Len(cards) # 5 THEN FALSE
    ELSE LET ranks == Ascending({cards[i].rank : i \in 1..Len(cards)})
         IN  IF Len(ranks) # 5 THEN FALSE
             ELSE IF ranks[5] - ranks[1] = 4 THEN TRUE
             ELSE IF ranks = <<2, 3, 4, 5, Ace>> THEN TRUE
             ELSE FALSE

\* is_royal: the sorted ranks are exactly [Ten, Jack, Queen, King, Ace]
is_royal(cards) ==
    /\ Len(cards) = 5
    /\ Ascending({cards[i].rank : i \in 1..Len(cards)}) = <<Ten, Jack, Queen, King, Ace>>

\* HandResult { hand_type, scoring_indices }
HandResult(hand_type, scoring_indices) ==
    [hand_type |-> hand_type, scoring_indices |-> scoring_indices]

\* Mutant of best_idx: the first card is taken for the best one.
best_idx_first(cards) == 0

\* The High Card arm of detect_hand: max_by_key(rank) keeps the last of the
\* cards of maximal rank.
best_idx(cards) ==
    LET top == CHOOSE r \in Range([i \in 1..Len(cards) |-> cards[i].rank]) :
                   \A i \in 1..Len(cards) : cards[i].rank <= r
        last == CHOOSE i \in 1..Len(cards) :
                    /\ cards[i].rank = top
                    /\ \A j \in 1..Len(cards) : cards[j].rank = top => j <= i
    IN  last - 1

\* detect_hand
detect_hand(cards) ==
    IF Len(cards) = 0 THEN HandResult("HighCard", <<>>)
    ELSE
    LET n == Len(cards)
        freq == rank_freq(cards)
        flush == is_flush(cards)
        straight == check_straight(cards)
        groups == sorted_groups(freq, DOMAIN freq)
        group_sizes == [i \in 1..Len(groups) |-> Len(groups[i].indices)]
    IN  IF n = 5 /\ group_sizes[1] = 5 /\ flush
            THEN HandResult("FlushFive", all_indices(n))
        ELSE IF group_sizes[1] = 5
            THEN HandResult("FiveOfAKind", all_indices(n))
        ELSE IF n = 5 /\ Len(group_sizes) = 2 /\ group_sizes[1] = 3
                /\ group_sizes[2] = 2 /\ flush
            THEN HandResult("FlushHouse", all_indices(n))
        ELSE IF n = 5 /\ straight /\ flush /\ is_royal(cards)
            THEN HandResult("RoyalFlush", all_indices(n))
        ELSE IF n = 5 /\ straight /\ flush
            THEN HandResult("StraightFlush", all_indices(n))
        ELSE IF group_sizes[1] >= 4
            THEN HandResult("FourOfAKind", groups[1].indices)
        ELSE IF Len(group_sizes) >= 2 /\ group_sizes[1] = 3 /\ group_sizes[2] >= 2
            THEN HandResult("FullHouse", groups[1].indices \o groups[2].indices)
        ELSE IF flush
            THEN HandResult("Flush", all_indices(n))
        ELSE IF straight
            THEN HandResult("Straight", all_indices(n))
        ELSE IF group_sizes[1] >= 3
            THEN HandResult("ThreeOfAKind", groups[1].indices)
        ELSE IF Len(group_sizes) >= 2 /\ group_sizes[1] >= 2 /\ group_sizes[2] >= 2
            THEN HandResult("TwoPair", groups[1].indices \o groups[2].indices)
        ELSE IF group_sizes[1] >= 2
            THEN HandResult("Pair", groups[1].indices)
        ELSE HandResult("HighCard", <<best_idx(cards)>>)

\* ------------------------------------------------------------------------
\* scoring.rs
\* ------------------------------------------------------------------------

\* HandLevels::new: every hand at level 1
HandLevels_new == [hand \in PokerHands |-> 1]

\* HandLevels::get_level
get_level(hand_levels, hand) == hand_levels[hand]

\* HandLevels::level_up: the level is a u8 and `*entry += 1` wraps at 256 in
\* a build without overflow checks (with them the call panics at 255)
level_up(hand_levels, hand) == [hand_levels EXCEPT ![hand] = (@ + 1) % 256]

\* Mutant of chips_for: the level is not reduced by one.
chips_for_off_by_one(hand_levels, hand) ==
    base_chips(hand) + get_level(hand_levels, hand) * level_up_chips(hand)

\* HandLevels::chips_for
chips_for(hand_levels, hand) ==
    LET level == get_level(hand_levels, hand)
    IN  base_chips(hand) + (level - 1) * level_up_chips(hand)

\* HandLevels::mult_for
mult_for(hand_levels, hand) ==
    LET level == get_level(hand_levels, hand)
    IN  base_mult(hand) + (level - 1) * level_up_mult(hand)

\* The variants of ScoreStep.
BaseHand(hand_type, chips, mult) ==
    [kind |-> "BaseHand", hand_type |-> hand_type, chips |-> chips, mult |-> mult]

CardChips(card_index, chips) ==
    [kind |-> "CardChips", card_index |-> card_index, chips |-> chips]

CardMult(card_index, mult) ==
    [kind |-> "CardMult", card_index |-> card_index, mult |-> mult]

CardXMult(card_index, x) ==
    [kind |-> "CardXMult", card_index |-> card_index, x_mult |-> x]

\* The running state of calculate_score: steps, total_chips, total_mult_f.
\* "Card chip value" of the loop over the scoring cards.
push_card_chips(acc, idx, card) ==
    LET card_chips == chip_value(card)
    IN  IF card_chips > 0
        THEN [acc EXCEPT !.steps = Append(@, CardChips(idx, card_chips)),
                         !.total_chips = @ + card_chips]
        ELSE acc

\* Mutant of push_card_mult: the mult is added but no step is logged.
push_card_mult_unlogged(acc, idx, card) ==
    [acc EXCEPT !.total_mult_f = F64AddInt(@, mult_bonus(card))]

\* "Card flat mult bonus" of the loop over the scoring cards.
push_card_mult(acc, idx, card) ==
    LET card_mult == mult_bonus(card)
    IN  IF card_mult > 0
        THEN [acc EXCEPT !.steps = Append(@, CardMult(idx, card_mult)),
                         !.total_mult_f = F64AddInt(@, card_mult)]
        ELSE acc

\* "Card multiplicative mult" of the loop over the scoring cards.  The test
\* (card_x_mult - 1.0).abs() > f64::EPSILON is card_x_mult # 1.0 for the
\* values x_mult returns (1.0, 1.5, 2.0, 3.0).
push_card_x_mult(acc, idx, card) ==
    LET card_x_mult == x_mult(card)
    IN  IF card_x_mult # F64FromInt(1)
        THEN [acc EXCEPT !.steps = Append(@, CardXMult(idx, card_x_mult)),
                         !.total_mult_f = F64Mul(@, card_x_mult)]
        ELSE acc

\* "Step 2: Process each scoring card": for &idx in &scoring_indices
RECURSIVE score_scoring_cards(_, _, _)
score_scoring_cards(acc, indices, played_cards) ==
    IF indices = <<>> THEN acc
    ELSE LET idx == Head(indices)
             card == played_cards[idx + 1]
         IN  score_scoring_cards(
                 push_card_x_mult(push_card_mult(push_card_chips(acc, idx, card),
                                                 idx, card), idx, card),
                 Tail(indices), played_cards)

\* Mutant of push_always_scores: the card is not looked up in
\* scoring_indices.
push_always_scores_twice(acc, idx, card, scoring_indices) ==
    IF always_scores(card)
    THEN [acc EXCEPT !.steps = Append(@, CardChips(idx, chip_value(card))),
                     !.total_chips = @ + chip_value(card)]
    ELSE acc

\* One iteration of the loop over the cards that always score.
push_always_scores(acc, idx, card, scoring_indices) ==
    IF always_scores(card) /\ idx \notin Range(scoring_indices)
    THEN push_card_chips(acc, idx, card)
    ELSE acc

\* "Also process cards that always score (Stone cards) but aren't in the
\* hand": for (idx, card) in played_cards.iter().enumerate()
RECURSIVE score_always_scoring(_, _, _, _)
score_always_scoring(acc, idx, played_cards, scoring_indices) ==
    IF idx >= Len(played_cards) THEN acc
    ELSE score_always_scoring(
             push_always_scores(acc, idx, played_cards[idx + 1], scoring_indices),
             idx + 1, played_cards, scoring_indices)

\* calculate_score
calculate_score(played_cards, hand_levels) ==
    LET hand_result == detect_hand(played_cards)
        hand_type == hand_result.hand_type
        scoring_indices == hand_result.scoring_indices
        base_c == chips_for(hand_levels, hand_type)
        base_m == mult_for(hand_levels, hand_type)
        start == [steps |-> <<BaseHand(hand_type, base_c, base_m)>>,
                  total_chips |-> base_c,
                  total_mult_f |-> F64FromInt(base_m)]
        scored == score_scoring_cards(start, scoring_indices, played_cards)
        final == score_always_scoring(scored, 0, played_cards, scoring_indices)
        total_mult == F64Ceil(final.total_mult_f)
    IN  [hand_type |-> hand_type,
         scoring_indices |-> scoring_indices,
         steps |-> final.steps,
         total_chips |-> final.total_chips,
         total_mult |-> total_mult,
         final_score |-> final.total_chips * total_mult]

\* ------------------------------------------------------------------------
\* joker.rs
\* ------------------------------------------------------------------------

\* JokerRarity::base_price
base_price(rarity) ==
    CASE rarity = "Common" -> 4
      [] rarity = "Uncommon" -> 6
      [] rarity = "Rare" -> 8
      [] rarity = "Legendary" -> 20

\* JokerType::ALL
JokerType_ALL ==
    <<"Joker", "GreedyJoker", "LustyJoker", "WrathfulJoker", "GluttonousJoker",
      "JollyJoker", "ZanyJoker", "CrazyJoker", "HalfJoker", "Banner",
      "OddTodd", "Scholar", "SteelJoker", "Blackboard", "TheDuo",
      "Egg", "GoldenJoker", "Hack", "Blueprint", "TheTrio">>

JokerTypes == {JokerType_ALL[i] : i \in 1..Len(JokerType_ALL)}

\* JokerType::rarity
rarity(joker_type) ==
    IF joker_type \in {"Scholar", "SteelJoker", "TheDuo", "TheTrio"} THEN "Uncommon"
    ELSE IF joker_type \in {"Blackboard", "Blueprint"} THEN "Rare"
    ELSE "Common"

\* JokerType::price
price(joker_type) == base_price(rarity(joker_type))

\* Joker::new
Joker_new(joker_type) ==
    [joker_type |-> joker_type,
     sell_value |-> price(joker_type) \div 2,
     bonus_sell |-> 0]

\* JokerContext { played_cards, scoring_indices, hand_type, held_cards,
\*                discards_remaining, num_played }
JokerContext(played, scoring_indices, hand_type, held_cards, discards, num_played) ==
    [played_cards |-> played,
     scoring_indices |-> scoring_indices,
     hand_type |-> hand_type,
     held_cards |-> held_cards,
     discards_remaining |-> discards,
     num_played |-> num_played]

\* JokerEffect
AddChips(chips) == [effect |-> "AddChips", chips |-> chips]

AddMult(mult) == [effect |-> "AddMult", mult |-> mult]

\* XMult(f64): the factor is kept as the exact rational of its decimal value.
XMult(x) == [effect |-> "XMult", x |-> x]

AddChipsPerCard(card_indices, chips_each) ==
    [effect |-> "AddChipsPerCard", card_indices |-> card_indices, chips_each |-> chips_each]

AddMultPerCard(card_indices, mult_each) ==
    [effect |-> "AddMultPerCard", card_indices |-> card_indices, mult_each |-> mult_each]

AddChipsAndMultPerCard(card_indices, chips_each, mult_each) ==
    [effect |-> "AddChipsAndMultPerCard", card_indices |-> card_indices,
     chips_each |-> chips_each, mult_each |-> mult_each]

Retrigger(card_indices) == [effect |-> "Retrigger", card_indices |-> card_indices]

JokerEffect_None == [effect |-> "None"]

\* ctx.scoring_indices.iter().filter(..).copied().collect(): the scoring
\* indices whose played card is one of the kept cards, in the order of
\* scoring_indices.
matching_indices(ctx, kept) ==
    SelectSeq(ctx.scoring_indices, LAMBDA i : ctx.played_cards[i + 1] \in kept)


\* hand_contains_at_least
hand_contains_at_least(ctx, min_hand) ==
    PokerHandOrd(ctx.hand_type) >= PokerHandOrd(min_hand)

\* suit_mult_joker
suit_mult_joker(ctx, suit, mult_per) ==
    LET matching ==
            matching_indices(ctx, {card \in Range(ctx.played_cards) :
                                      card.suit = suit \/ is_wild(card)})
    IN  IF matching = <<>> THEN JokerEffect_None
        ELSE AddMultPerCard(matching, mult_per)

\* evaluate_type
evaluate_type(jtype, ctx) ==
    CASE jtype = "Joker" -> AddMult(4)
      [] jtype = "GreedyJoker" -> suit_mult_joker(ctx, "Diamonds", 3)
      [] jtype = "LustyJoker" -> suit_mult_joker(ctx, "Hearts", 3)
      [] jtype = "WrathfulJoker" -> suit_mult_joker(ctx, "Spades", 3)
      [] jtype = "GluttonousJoker" -> suit_mult_joker(ctx, "Clubs", 3)
      [] jtype = "JollyJoker" ->
            IF PokerHandOrd(ctx.hand_type) >= PokerHandOrd("Pair")
            THEN AddMult(8) ELSE JokerEffect_None
      [] jtype = "ZanyJoker" ->
            IF PokerHandOrd(ctx.hand_type) >= PokerHandOrd("ThreeOfAKind")
            THEN AddMult(12) ELSE JokerEffect_None
      [] jtype = "CrazyJoker" ->
            IF \/ PokerHandOrd(ctx.hand_type) >= PokerHandOrd("Straight")
               \/ ctx.hand_type = "StraightFlush"
               \/ ctx.hand_type = "RoyalFlush"
            THEN AddMult(12) ELSE JokerEffect_None
      [] jtype = "HalfJoker" ->
            IF ctx.num_played <= 3 THEN AddMult(20) ELSE JokerEffect_None
      [] jtype = "Banner" -> AddChips(ctx.discards_remaining * 30)
      [] jtype = "OddTodd" ->
            LET odd_indices ==
                    matching_indices(ctx, {card \in Range(ctx.played_cards) :
                                              card.rank % 2 = 1})
            IN  IF odd_indices = <<>> THEN JokerEffect_None
                ELSE AddChipsPerCard(odd_indices, 31)
      [] jtype = "Scholar" ->
            LET ace_indices ==
                    matching_indices(ctx, {card \in Range(ctx.played_cards) :
                                              card.rank = Ace})
            IN  IF ace_indices = <<>> THEN JokerEffect_None
                ELSE AddChipsAndMultPerCard(ace_indices, 20, 4)
      [] jtype = "SteelJoker" ->
            LET steel_count ==
                    Cardinality({i \in 1..Len(ctx.held_cards) :
                                    ctx.held_cards[i].enhancement = "Steel"})
            IN  IF steel_count > 0 THEN XMult(F64(5 + steel_count, 5))
                ELSE JokerEffect_None
      [] jtype = "Blackboard" ->
            LET all_dark ==
                    \A i \in 1..Len(ctx.held_cards) :
                        \/ ctx.held_cards[i].suit = "Spades"
                        \/ ctx.held_cards[i].suit = "Clubs"
                        \/ is_wild(ctx.held_cards[i])
            IN  IF all_dark /\ ctx.held_cards # <<>> THEN XMult(F64FromInt(3))
                ELSE JokerEffect_None
      [] jtype = "TheDuo" ->
            IF hand_contains_at_least(ctx, "Pair") THEN XMult(F64FromInt(2))
            ELSE JokerEffect_None
      [] jtype = "TheTrio" ->
            IF hand_contains_at_least(ctx, "ThreeOfAKind") THEN XMult(F64FromInt(3))
            ELSE JokerEffect_None
      [] jtype \in {"Egg", "GoldenJoker"} -> JokerEffect_None
      [] jtype = "Hack" ->
            LET retrigger_indices ==
                    matching_indices(ctx, {card \in Range(ctx.played_cards) :
                                              card.rank \in {2, 3, 4, 5}})
            IN  IF retrigger_indices = <<>> THEN JokerEffect_None
                ELSE Retrigger(retrigger_indices)
      [] jtype = "Blueprint" -> JokerEffect_None

\* Mutant of evaluate_joker: a Blueprint is evaluated as its own type.
evaluate_joker_own_type(joker, ctx, next_joker_type) ==
    evaluate_type(joker.joker_type, ctx)

\* evaluate_joker; next_joker_type is the Option<JokerType> of the caller,
\* "None" or a joker type.
evaluate_joker(joker, ctx, next_joker_type) ==
    IF joker.joker_type = "Blueprint"
    THEN IF next_joker_type = "None" THEN JokerEffect_None
         ELSE evaluate_type(next_joker_type, ctx)
    ELSE evaluate_type(joker.joker_type, ctx)

\* The caller's argument for slot idx: the type of the next joker in slot
\* order, None for the last slot.
next_joker_type_of(jokers, idx) ==
    IF idx + 1 < Len(jokers) THEN jokers[idx + 2].joker_type ELSE "None"

\* The caller's pass over the joker slots, left to right.
evaluate_jokers(jokers, ctx) ==
    [idx \in 1..Len(jokers) |->
        evaluate_joker(jokers[idx], ctx, next_joker_type_of(jokers, idx - 1))]

\* The context the scoring of a played hand builds for the jokers: the
\* detected hand of the played cards, the cards held back, the discards left.
joker_context(played, result, held_cards, discards) ==
    JokerContext(played, result.scoring_indices, result.hand_type,
                 held_cards, discards, Len(played))

\* ScoreStep::JokerChips, JokerMult, JokerXMult
JokerChips(joker_index, chips) ==
    [kind |-> "JokerChips", joker_index |-> joker_index, chips |-> chips]

JokerMult(joker_index, mult) ==
    [kind |-> "JokerMult", joker_index |-> joker_index, mult |-> mult]

JokerXMult(joker_index, x) ==
    [kind |-> "JokerXMult", joker_index |-> joker_index, x_mult |-> x]

\* Flat chips of a joker: a JokerChips step, added to the running chips.
push_joker_chips(acc, joker_index, chips) ==
    [acc EXCEPT !.steps = Append(@, JokerChips(joker_index, chips)),
                !.total_chips = @ + chips]

\* Flat mult of a joker: a JokerMult step, added to the running mult.
push_joker_mult(acc, joker_index, mult) ==
    [acc EXCEPT !.steps = Append(@, JokerMult(joker_index, mult)),
                !.total_mult_f = F64AddInt(@, mult)]

\* The steps one joker effect emits and the totals it updates.
apply_joker_effect(acc, joker_index, effect, played) ==
    CASE effect.effect = "AddChips" -> push_joker_chips(acc, joker_index, effect.chips)
      [] effect.effect = "AddMult" -> push_joker_mult(acc, joker_index, effect.mult)
      [] effect.effect = "XMult" ->
            [acc EXCEPT !.steps = Append(@, JokerXMult(joker_index, effect.x)),
                        !.total_mult_f = F64Mul(@, effect.x)]
      [] effect.effect = "AddChipsPerCard" ->
            push_joker_chips(acc, joker_index,
                             Len(effect.card_indices) * effect.chips_each)
      [] effect.effect = "AddMultPerCard" ->
            push_joker_mult(acc, joker_index,
                            Len(effect.card_indices) * effect.mult_each)
      [] effect.effect = "AddChipsAndMultPerCard" ->
            push_joker_mult(
                push_joker_chips(acc, joker_index,
                                 Len(effect.card_indices) * effect.chips_each),
                joker_index, Len(effect.card_indices) * effect.mult_each)
      [] effect.effect = "Retrigger" ->
            score_scoring_cards(acc, effect.card_indices, played)
      [] effect.effect = "None" -> acc

RECURSIVE apply_joker_effects(_, _, _, _)
apply_joker_effects(acc, joker_index, effects, played) ==
    IF joker_index >= Len(effects) THEN acc
    ELSE apply_joker_effects(
             apply_joker_effect(acc, joker_index, effects[joker_index + 1], played),
             joker_index + 1, effects, played)

\* calculate_score_with_jokers: the steps of calculate_score, then the
\* jokers in slot order, then the ceiling of the mult and the product.
calculate_score_with_jokers(played, levels, owned, held_cards, discards) ==
    LET result == detect_hand(played)
        base_c == chips_for(levels, result.hand_type)
        base_m == mult_for(levels, result.hand_type)
        start == [steps |-> <<BaseHand(result.hand_type, base_c, base_m)>>,
                  total_chips |-> base_c,
                  total_mult_f |-> F64FromInt(base_m)]
        scored == score_scoring_cards(start, result.scoring_indices, played)
        stones == score_always_scoring(scored, 0, played, result.scoring_indices)
        effects == evaluate_jokers(owned, joker_context(played, result, held_cards, discards))
        final == apply_joker_effects(stones, 0, effects, played)
        total_mult == F64Ceil(final.total_mult_f)
    IN  [hand_type |-> result.hand_type,
         scoring_indices |-> result.scoring_indices,
         steps |-> final.steps,
         total_chips |-> final.total_chips,
         total_mult |-> total_mult,
         final_score |-> final.total_chips * total_mult]

\* ------------------------------------------------------------------------
\* blind.rs
\* ------------------------------------------------------------------------

\* BossBlind::ALL
BossBlind_ALL ==
    <<"TheHook", "TheWall", "ThePsychic", "TheNeedle",
      "TheClub", "TheGoad", "TheWindow", "TheHead">>

BossBlinds == {BossBlind_ALL[i] : i \in 1..Len(BossBlind_ALL)}

\* BlindType::Small, BlindType::Big, BlindType::Boss(boss)
Small == [blind |-> "Small"]

Big == [blind |-> "Big"]

Boss(boss) == [blind |-> "Boss", boss |-> boss]

\* BossBlind::score_multiplier
boss_score_multiplier(boss) ==
    IF boss = "TheWall" THEN F64FromInt(4) ELSE F64FromInt(2)

\* BlindType::score_multiplier
score_multiplier(blind_type) ==
    CASE blind_type.blind = "Small" -> F64FromInt(1)
      [] blind_type.blind = "Big" -> F64(3, 2)
      [] blind_type.blind = "Boss" -> boss_score_multiplier(blind_type.boss)

\* BlindType::reward
reward(blind_type) ==
    CASE blind_type.blind = "Small" -> 3
      [] blind_type.blind = "Big" -> 4
      [] blind_type.blind = "Boss" -> 5

\* ante_base_chips
ante_base_chips(ante) ==
    CASE ante = 1 -> 300
      [] ante = 2 -> 800
      [] ante = 3 -> 2000
      [] ante = 4 -> 5000
      [] ante = 5 -> 11000
      [] ante = 6 -> 20000
      [] ante = 7 -> 35000
      [] ante = 8 -> 50000
      [] OTHER -> 50000 + (ante - 8) * 25000

\* `as u64` of a non-negative f64: the fraction is dropped
F64ToU64(a) == a.num \div a.den

\* score_target that takes every blind for the Small blind
score_target_of_small(ante, blind_type) == ante_base_chips(ante)

\* score_target
score_target_of(ante, blind_type) ==
    F64ToU64(F64Mul(F64FromInt(ante_base_chips(ante)), score_multiplier(blind_type)))

\* ------------------------------------------------------------------------
\* deck.rs
\* ------------------------------------------------------------------------

\* Rank::ALL
Rank_ALL == <<2, 3, 4, 5, 6, 7, 8, 9, Ten, Jack, Queen, King, Ace>>

\* Deck { cards, discard }; the top of the draw pile is the end of cards
Deck(cards, discard) == [cards |-> cards, discard |-> discard]

\* Deck::standard: suit by suit, each suit in the order of Rank::ALL
Deck_standard ==
    Deck([i \in 1..52 |->
             PlayingCard_new(Rank_ALL[((i - 1) % 13) + 1], Suit_ALL[((i - 1) \div 13) + 1])],
         <<>>)

\* The position of a suit in Suit::ALL
SuitOrd(suit) == CHOOSE i \in 1..4 : Suit_ALL[i] = suit

\* The orders a shuffle is taken to produce: the pile sorted by rank and
\* then suit, or by suit and then rank (highest at the top).
ShuffleOrders == {"ByRank", "BySuit"}

ShuffleKey(order, card) ==
    IF order = "ByRank" THEN card.rank * 4 + SuitOrd(card.suit)
    ELSE SuitOrd(card.suit) * 16 + card.rank

\* The pile sorted by the key, lowest first
SortByKey(cards, order) ==
    SortSeq(cards, LAMBDA a, b : ShuffleKey(order, a) < ShuffleKey(order, b))

\* Deck::shuffle: the outcomes of cards.shuffle(rng)
shuffle(deck) == {Deck(SortByKey(deck.cards, order), deck.discard) : order \in ShuffleOrders}

\* Deck::draw that copies the cards and leaves them on the draw pile
draw_copies(deck, n) ==
    LET have == Len(deck.cards)
        k == IF n < have THEN n ELSE have
    IN  [deck |-> deck,
         drawn |-> [i \in 1..k |-> deck.cards[have - i + 1]]]

\* Deck::draw: pops up to n cards off the end of cards, first popped first
draw(deck, n) ==
    LET have == Len(deck.cards)
        k == IF n < have THEN n ELSE have
    IN  [deck |-> Deck(SubSeq(deck.cards, 1, have - k), deck.discard),
         drawn |-> [i \in 1..k |-> deck.cards[have - i + 1]]]

\* Deck::discard_cards
discard_cards(deck, cards) == Deck(deck.cards, deck.discard \o cards)

\* Deck::reshuffle_discard
reshuffle_discard(deck) == shuffle(Deck(deck.cards \o deck.discard, <<>>))

\* Deck::reset_and_shuffle
reset_and_shuffle(deck) == shuffle(Deck(deck.cards \o deck.discard, <<>>))

\* ------------------------------------------------------------------------
\* consumable.rs
\* ------------------------------------------------------------------------

\* ConsumableType::Planet / ConsumableType::Tarot
Planet(planet) == [kind |-> "Planet", card |-> planet]

Tarot(tarot) == [kind |-> "Tarot", card |-> tarot]

\* ConsumableType::price
consumable_price(consumable_type) ==
    CASE consumable_type.kind = "Planet" -> 3
      [] consumable_type.kind = "Tarot" -> 3

\* Consumable::new
Consumable_new(consumable_type) == [consumable_type |-> consumable_type]

\* PlanetCard::COMMON
PlanetCard_COMMON ==
    <<"Pluto", "Mercury", "Uranus", "Venus", "Saturn", "Jupiter", "Earth", "Mars",
      "Neptune">>

\* PlanetCard::hand_type
hand_type(planet) ==
    CASE planet = "Pluto" -> "HighCard"
      [] planet = "Mercury" -> "Pair"
      [] planet = "Uranus" -> "TwoPair"
      [] planet = "Venus" -> "ThreeOfAKind"
      [] planet = "Saturn" -> "Straight"
      [] planet = "Jupiter" -> "Flush"
      [] planet = "Earth" -> "FullHouse"
      [] planet = "Mars" -> "FourOfAKind"
      [] planet = "Neptune" -> "StraightFlush"
      [] planet = "PlanetX" -> "FiveOfAKind"
      [] planet = "Ceres" -> "FlushHouse"
      [] planet = "Eris" -> "FlushFive"

\* TarotCard::ALL
TarotCard_ALL ==
    <<"TheFool", "TheMagician", "TheHighPriestess", "TheEmpress", "TheEmperor",
      "TheHierophant", "TheLover", "TheChariot", "Strength", "TheHermit", "Death",
      "Temperance">>

\* TarotCard::cards_needed with Death taking one or two cards
cards_needed_death_any(tarot) ==
    CASE tarot \in {"TheFool", "TheHighPriestess", "TheEmperor", "TheHermit",
                    "Temperance"} -> <<0, 0>>
      [] tarot \in {"TheLover", "TheChariot"} -> <<1, 1>>
      [] OTHER -> <<1, 2>>

\* TarotCard::cards_needed: (min, max)
cards_needed(tarot) ==
    CASE tarot \in {"TheFool", "TheHighPriestess", "TheEmperor", "TheHermit",
                    "Temperance"} -> <<0, 0>>
      [] tarot \in {"TheLover", "TheChariot"} -> <<1, 1>>
      [] tarot = "Death" -> <<2, 2>>
      [] OTHER -> <<1, 2>>

\* ------------------------------------------------------------------------
\* shop.rs
\* ------------------------------------------------------------------------

\* ShopItem::JokerItem
JokerItem(joker) == [item |-> "JokerItem", joker |-> joker]

\* ShopItem::ConsumableItem
ConsumableItem(consumable) == [item |-> "ConsumableItem", consumable |-> consumable]

\* ShopItem::price
item_price(item) ==
    IF item.item = "JokerItem"
    THEN price(item.joker.joker_type)
    ELSE consumable_price(item.consumable.consumable_type)

\* Shop { items, reroll_cost }
Shop(items, reroll_cost) == [items |-> items, reroll_cost |-> reroll_cost]

\* The item lists a generated shop is taken to hold: two jokers, a planet
\* and a tarot, two tarots, and a joker with a tarot.
ShopOffers ==
    {<<JokerItem(Joker_new("Joker")), JokerItem(Joker_new("Blueprint"))>>,
     <<JokerItem(Joker_new("GoldenJoker")), JokerItem(Joker_new("Egg"))>>,
     <<ConsumableItem(Consumable_new(Planet("Mercury"))),
       ConsumableItem(Consumable_new(Tarot("TheLover")))>>,
     <<ConsumableItem(Consumable_new(Tarot("Death"))),
       ConsumableItem(Consumable_new(Tarot("TheEmpress")))>>,
     <<JokerItem(Joker_new("Joker")),
       ConsumableItem(Consumable_new(Tarot("TheHermit")))>>}

\* Shop::generate: the outcomes of the two rolls
Shop_generate == {Shop(items, 5) : items \in ShopOffers}

\* Shop::reroll
Shop_reroll(shop) ==
    {[generated EXCEPT !.reroll_cost = @ + 1] : generated \in Shop_generate}

\* Shop::buy that removes the first item whatever the index
Shop_buy_first(shop, index) ==
    IF index < Len(shop.items)
    THEN [item |-> {shop.items[1]},
          shop |-> Shop(Tail(shop.items), shop.reroll_cost)]
    ELSE [item |-> {}, shop |-> shop]

\* Shop::buy: the item removed at the index, in a set, and the shop left
Shop_buy(shop, index) ==
    IF index < Len(shop.items)
    THEN [item |-> {shop.items[index + 1]},
          shop |-> Shop(SubSeq(shop.items, 1, index)
                            \o SubSeq(shop.items, index + 2, Len(shop.items)),
                        shop.reroll_cost)]
    ELSE [item |-> {}, shop |-> shop]

\* ------------------------------------------------------------------------
\* Inputs of the pure functions: the card pools played hands are drawn from
\* ------------------------------------------------------------------------

\* The tests' helper c(rank, suit)
c(rank, suit) == PlayingCard_new(rank, suit)

\* Ten to Ace of spades with two low spades: royal flush, plain flush and
\* more than five cards of one suit.
RoyalPool ==
    {c(Ten, "Spades"), c(Jack, "Spades"), c(Queen, "Spades"), c(King, "Spades"),
     c(Ace, "Spades"), c(2, "Spades"), c(3, "Spades")}

\* Mixed suits around the ace: the wrap-arounds Q-K-A-2-3 and K-A-2-3-4.
WrapPool ==
    {c(Queen, "Hearts"), c(King, "Spades"), c(Ace, "Spades"), c(2, "Spades"),
     c(3, "Diamonds"), c(4, "Clubs")}

\* Ace to five of hearts and a second five: the ace-low straight, with and
\* without a flush.
HeartsPool ==
    {c(Ace, "Hearts"), c(2, "Hearts"), c(3, "Hearts"), c(4, "Hearts"),
     c(5, "Hearts"), c(5, "Spades")}

\* Five to nine in mixed suits and a second nine (tests::test_straight).
StraightPool ==
    {c(5, "Spades"), c(6, "Hearts"), c(7, "Clubs"), c(8, "Diamonds"),
     c(9, "Spades"), c(9, "Hearts")}

\* Four kings and two fives: pair, two pair, three and four of a kind, full
\* house.
GroupPool ==
    {c(King, "Spades"), c(King, "Hearts"), c(King, "Diamonds"), c(King, "Clubs"),
     c(5, "Spades"), c(5, "Hearts")}

\* Three kings and three fives.
TriplePool ==
    {c(King, "Spades"), c(King, "Hearts"), c(King, "Diamonds"),
     c(5, "Spades"), c(5, "Hearts"), c(5, "Diamonds")}

\* Kings and fives carrying flat mult, x-mult and chip modifiers.
MultPool ==
    {PlayingCard(King, "Spades", "Mult", "Base", FALSE),
     PlayingCard(King, "Hearts", "Glass", "Polychrome", FALSE),
     PlayingCard(King, "Diamonds", "None", "Holographic", FALSE),
     PlayingCard(King, "Clubs", "None", "Polychrome", FALSE),
     PlayingCard(5, "Spades", "Stone", "Base", FALSE),
     PlayingCard(5, "Hearts", "Bonus", "Foil", FALSE)}

\* Stone cards, plain and debuffed cards.
StonePool ==
    {PlayingCard(5, "Clubs", "Stone", "Base", FALSE),
     PlayingCard(9, "Spades", "Stone", "Foil", FALSE),
     PlayingCard(7, "Diamonds", "Stone", "Holographic", TRUE),
     PlayingCard(King, "Spades", "None", "Base", FALSE),
     PlayingCard(King, "Hearts", "Mult", "Polychrome", TRUE),
     PlayingCard(9, "Diamonds", "None", "Base", FALSE)}

\* Wild cards and a second king of spades: five of a kind, flush five.
WildPool ==
    {PlayingCard(King, "Spades", "None", "Base", FALSE),
     PlayingCard(King, "Hearts", "Wild", "Base", FALSE),
     PlayingCard(King, "Diamonds", "Wild", "Base", FALSE),
     PlayingCard(King, "Clubs", "None", "Base", FALSE),
     PlayingCard(King, "Spades", "Bonus", "Base", FALSE),
     PlayingCard(King, "Clubs", "Wild", "Base", FALSE)}

\* Wild cards in a 3 + 2: flush house.
HousePool ==
    {PlayingCard(King, "Spades", "None", "Base", FALSE),
     PlayingCard(King, "Hearts", "Wild", "Base", FALSE),
     PlayingCard(King, "Diamonds", "Wild", "Base", FALSE),
     PlayingCard(5, "Hearts", "Wild", "Base", FALSE),
     PlayingCard(5, "Spades", "None", "Base", FALSE),
     PlayingCard(5, "Diamonds", "None", "Base", FALSE)}

Pools ==
    {RoyalPool, WrapPool, HeartsPool, StraightPool, GroupPool, TriplePool,
     MultPool, StonePool, WildPool, HousePool}

\* Level tables: every hand at the same level, and a staggered table.
LevelTables ==
    {[hand \in PokerHands |-> level] : level \in 1..MaxLevel}
        \cup {[hand \in PokerHands |-> 1 + (PokerHandOrd(hand) % MaxLevel)]}

\* The inputs of the scoring functions: every pool at level 1, and the pools
\* of kings and fives at every level table.
ScoreInputs ==
    {<<p, HandLevels_new>> : p \in Pools}
        \cup {<<p, t>> : p \in {GroupPool, MultPool}, t \in LevelTables}

\* ------------------------------------------------------------------------
\* run.rs: the generator of a run, StdRng::seed_from_u64(seed)
\* ------------------------------------------------------------------------

\* StdRng::seed_from_u64: the generator of a seed, nothing drawn from it yet
seed_from_u64(seed) == [seed |-> seed, taken |-> 0]

\* The generator after one more draw
advance(generator) == [generator EXCEPT !.taken = @ + 1]

\* Rng::gen_range(0..n): the value a generator gives is fixed by its seed
\* and by the number of draws made from it before
gen_range(generator, n) ==
    ((generator.seed + 1) * (generator.taken + 1)) % n

\* The members of a set of outcomes in a fixed order
RECURSIVE InOrder(_)
InOrder(outcomes) ==
    IF outcomes = {} THEN <<>>
    ELSE LET first == CHOOSE outcome \in outcomes : TRUE
         IN  <<first>> \o InOrder(outcomes \ {first})

\* A draw that takes its value from the thread's generator, not from the
\* generator of the run: any outcome
seeded_thread_rng(outcomes, generator) == outcomes

\* The outcomes of a draw made with the generator of the run: one, fixed by
\* the generator
seeded(outcomes, generator) ==
    {InOrder(outcomes)[gen_range(generator, Cardinality(outcomes)) + 1]}

\* Nothing of a first run kept
NothingSeen == [again |-> FALSE, seed |-> 0, first |-> <<>>, steps |-> <<>>]

\* ------------------------------------------------------------------------
\* State
\* ------------------------------------------------------------------------

VARIABLES
    pool,               \* the cards the played slice is drawn from
    played_cards,       \* the slice handed to detect_hand / calculate_score
    hand_levels,        \* HandLevels.levels
    hand_result,        \* the HandResult detect_hand returned for played_cards
    score_result,       \* the ScoreResult calculate_score returned for played_cards
    jokers,             \* RunState.jokers
    joker_effects,      \* the JokerEffect evaluated for every joker slot
    hand,               \* RunState.hand
    discards_remaining, \* RunState.discards_remaining
    phase,              \* App.phase
    ante,               \* RunState.ante
    blind_type,         \* RunState.blind_type
    ante_phase,         \* RunState.ante_phase
    money,              \* RunState.money
    hands_remaining,    \* RunState.hands_remaining
    deck,               \* RunState.deck
    selected_indices,   \* RunState.selected_indices
    round_score,        \* RunState.round_score
    score_target,       \* RunState.score_target
    boss_blind,         \* RunState.boss_blind
    blinds_beaten,      \* RunState.blinds_beaten
    blind_outcomes,     \* RunState.blind_outcomes
    shop,               \* RunState.shop: {} for None, {shop} for Some(shop)
    scoring_phase,      \* PlayRoundScreen.scoring_phase
    scoring_result,     \* PlayRoundScreen.scoring_result: {} for None
    blind_just_beaten,  \* PlayRoundScreen.blind_just_beaten
    toggles,            \* number of ToggleCard actions processed so far
    calls,              \* number of RunState methods called so far
    consumables,        \* RunState.consumables
    rng,                \* RunState.rng: the seed and the number of draws made
    seen                \* what a first run showed, for a second run to be set against

scoreVars == <<pool, played_cards, hand_levels, hand_result, score_result>>

jokerVars == <<jokers, joker_effects>>

tableVars == <<hand, discards_remaining>>

runVars ==
    <<phase, ante, blind_type, ante_phase, money, hands_remaining, deck,
      selected_indices, round_score, score_target, boss_blind, blinds_beaten,
      blind_outcomes, shop, scoring_phase, scoring_result, blind_just_beaten,
      toggles, calls, rng, seen, consumables>>

vars == <<scoreVars, jokerVars, tableVars, runVars>>

\* RunState fields the code never assigns after with_seed
hand_size == 8

max_jokers == 5

max_consumables == 2

\* No run is being played: the application is at its main menu and the
\* run fields hold the values a new run starts from.
NoRun ==
    /\ phase = "MainMenu"
    /\ ante = 1
    /\ blind_type = Small
    /\ ante_phase = "BlindSelect"
    /\ money = 4
    /\ hands_remaining = 4
    /\ deck = Deck_standard
    /\ selected_indices = <<>>
    /\ round_score = 0
    /\ score_target = score_target_of(1, Small)
    /\ boss_blind = BossBlind_ALL[1]
    /\ blinds_beaten = 0
    /\ blind_outcomes = <<"Active", "Upcoming", "Upcoming">>
    /\ shop = {}
    /\ scoring_phase = "NotScoring"
    /\ scoring_result = {}
    /\ blind_just_beaten = FALSE
    /\ toggles = 0
    /\ calls = 0
    /\ rng = seed_from_u64(0)
    /\ seen = NothingSeen
    /\ consumables = <<>>

\* ------------------------------------------------------------------------
\* Scoring a played slice
\* ------------------------------------------------------------------------

ScoreInit ==
    /\ \E input \in ScoreInputs :
           /\ pool = input[1]
           /\ hand_levels = input[2]
    /\ played_cards = <<>>
    /\ hand_result = detect_hand(<<>>)
    /\ score_result = calculate_score(<<>>, hand_levels)
    /\ jokers = <<>>
    /\ joker_effects = <<>>
    /\ hand = <<>>
    /\ discards_remaining = 3
    /\ NoRun

\* One more card of the pool is played: the caller hands the longer slice
\* to detect_hand and to calculate_score.
PlayCard ==
    \E card \in pool \ Range(played_cards) :
        /\ Len(played_cards) < MaxCards
        /\ played_cards' = Append(played_cards, card)
        /\ hand_result' = detect_hand(played_cards')
        /\ score_result' = calculate_score(played_cards', hand_levels)
        /\ UNCHANGED <<pool, hand_levels, jokerVars, tableVars, runVars>>

ScoreNext == PlayCard

SpecScore == ScoreInit /\ [][ScoreNext]_vars

\* ------------------------------------------------------------------------
\* Evaluating the joker slots
\* ------------------------------------------------------------------------

\* Played hands with the cards held back and the discards left.
JokerInputs ==
    {[played |-> <<c(Ace, "Spades"), c(Ace, "Hearts"), c(5, "Diamonds"),
                   c(5, "Clubs"), c(3, "Spades")>>,
      held |-> <<PlayingCard(King, "Spades", "Steel", "Base", FALSE), c(Queen, "Clubs")>>,
      discards |-> 3],
     [played |-> <<c(7, "Hearts"), c(7, "Diamonds"), c(7, "Clubs")>>,
      held |-> <<PlayingCard(2, "Hearts", "Steel", "Base", FALSE),
                 PlayingCard(3, "Spades", "Steel", "Base", FALSE)>>,
      discards |-> 0],
     [played |-> <<c(5, "Spades"), c(6, "Hearts"), c(7, "Clubs"),
                   c(8, "Diamonds"), c(9, "Spades")>>,
      held |-> <<>>,
      discards |-> 1],
     [played |-> <<c(2, "Diamonds")>>,
      held |-> <<PlayingCard(4, "Hearts", "Wild", "Base", FALSE)>>,
      discards |-> 2]}

JokerInit ==
    /\ \E input \in JokerInputs :
           /\ played_cards = input.played
           /\ hand = input.held
           /\ discards_remaining = input.discards
    /\ pool = {}
    /\ hand_levels = HandLevels_new
    /\ hand_result = detect_hand(played_cards)
    /\ score_result =
           calculate_score_with_jokers(played_cards, hand_levels, <<>>,
                                       hand, discards_remaining)
    /\ jokers = <<>>
    /\ joker_effects = <<>>
    /\ NoRun

\* A joker takes the next free slot; the slots are evaluated for the played
\* hand and the hand is scored with them.
AddJoker ==
    \E joker_type \in JokerTypes :
        /\ Len(jokers) < MaxJokers
        /\ jokers' = Append(jokers, Joker_new(joker_type))
        /\ joker_effects' =
               evaluate_jokers(jokers',
                   joker_context(played_cards, hand_result, hand, discards_remaining))
        /\ score_result' =
               calculate_score_with_jokers(played_cards, hand_levels, jokers',
                                           hand, discards_remaining)
        /\ UNCHANGED <<pool, played_cards, hand_levels, hand_result, tableVars, runVars>>

JokerNext == AddJoker

SpecJoker == JokerInit /\ [][JokerNext]_vars

\* ------------------------------------------------------------------------
\* run.rs: the methods of RunState
\* ------------------------------------------------------------------------

\* Mutant of debuff_suit: The Club debuffs spades.
debuff_suit_club_spades(boss) ==
    CASE boss = "TheClub" -> {"Spades"}
      [] boss = "TheGoad" -> {"Spades"}
      [] boss = "TheWindow" -> {"Diamonds"}
      [] boss = "TheHead" -> {"Hearts"}
      [] OTHER -> {}

\* The cards of boss blinds that debuff a suit
debuff_suit(boss) ==
    CASE boss = "TheClub" -> {"Clubs"}
      [] boss = "TheGoad" -> {"Spades"}
      [] boss = "TheWindow" -> {"Diamonds"}
      [] boss = "TheHead" -> {"Hearts"}
      [] OTHER -> {}

\* RunState::apply_boss_debuffs on the hand cards
apply_boss_debuffs(cards, blind) ==
    IF blind.blind = "Boss"
    THEN [i \in 1..Len(cards) |->
             IF cards[i].suit \in debuff_suit(blind.boss)
             THEN [cards[i] EXCEPT !.debuffed = TRUE]
             ELSE cards[i]]
    ELSE cards

\* RunState::current_blind_index
current_blind_index ==
    CASE blind_type.blind = "Small" -> 0
      [] blind_type.blind = "Big" -> 1
      [] blind_type.blind = "Boss" -> 2

\* RunState::random_boss: the outcomes of the draw
random_boss == BossBlinds

\* RunState::with_seed
with_seed ==
    /\ ante = 1
    /\ blind_type = Small
    /\ ante_phase = "BlindSelect"
    /\ money = 4
    /\ hands_remaining = 4
    /\ discards_remaining = 3
    /\ deck \in shuffle(Deck_standard)
    /\ hand = <<>>
    /\ selected_indices = <<>>
    /\ jokers = <<>>
    /\ consumables = <<>>
    /\ hand_levels = HandLevels_new
    /\ round_score = 0
    /\ score_target = score_target_of(1, Small)
    /\ boss_blind \in random_boss
    /\ blinds_beaten = 0
    /\ blind_outcomes = <<"Active", "Upcoming", "Upcoming">>
    /\ shop = {}

\* RunState::start_blind
start_blind ==
    /\ ante_phase' = "Playing"
    /\ round_score' = 0
    /\ hands_remaining' =
           IF blind_type.blind = "Boss" /\ blind_type.boss = "TheNeedle" THEN 1 ELSE 4
    /\ discards_remaining' = 3
    /\ selected_indices' = <<>>
    /\ score_target' = score_target_of(ante, blind_type)
    /\ \E shuffled \in reset_and_shuffle(deck) :
           LET pulled == draw(shuffled, hand_size)
           IN  /\ deck' = pulled.deck
               /\ hand' = apply_boss_debuffs(pulled.drawn, blind_type)
    /\ UNCHANGED <<ante, blind_type, money, jokers, consumables, hand_levels, boss_blind,
                   blinds_beaten, blind_outcomes, shop>>

\* Mutant of advance_blind: finishing the Boss blind keeps the ante.
advance_blind_same_ante(outcomes) ==
    /\ CASE blind_type.blind = "Small" ->
                /\ blind_type' = Big
                /\ blind_outcomes' = [outcomes EXCEPT ![2] = "Active"]
                /\ UNCHANGED <<ante, blinds_beaten, boss_blind>>
         [] blind_type.blind = "Big" ->
                /\ blind_type' = Boss(boss_blind)
                /\ blind_outcomes' = [outcomes EXCEPT ![3] = "Active"]
                /\ UNCHANGED <<ante, blinds_beaten, boss_blind>>
         [] blind_type.blind = "Boss" ->
                /\ ante < MaxAnte
                /\ ante' = ante
                /\ blinds_beaten' = 0
                /\ boss_blind' \in random_boss
                /\ blind_type' = Small
                /\ blind_outcomes' = <<"Active", "Upcoming", "Upcoming">>
    /\ ante_phase' = "BlindSelect"
    /\ score_target' = score_target_of(ante', blind_type')

\* RunState::advance_blind, entered with the outcomes its caller has marked;
\* the ante stops at MaxAnte.
advance_blind(outcomes) ==
    /\ CASE blind_type.blind = "Small" ->
                /\ blind_type' = Big
                /\ blind_outcomes' = [outcomes EXCEPT ![2] = "Active"]
                /\ UNCHANGED <<ante, blinds_beaten, boss_blind>>
         [] blind_type.blind = "Big" ->
                /\ blind_type' = Boss(boss_blind)
                /\ blind_outcomes' = [outcomes EXCEPT ![3] = "Active"]
                /\ UNCHANGED <<ante, blinds_beaten, boss_blind>>
         [] blind_type.blind = "Boss" ->
                /\ ante < MaxAnte
                /\ ante' = ante + 1
                /\ blinds_beaten' = 0
                /\ boss_blind' \in random_boss
                /\ blind_type' = Small
                /\ blind_outcomes' = <<"Active", "Upcoming", "Upcoming">>
    /\ ante_phase' = "BlindSelect"
    /\ score_target' = score_target_of(ante', blind_type')

\* skip_blind that advances without marking the blind it leaves
skip_blind_unmarked ==
    /\ advance_blind(blind_outcomes)
    /\ UNCHANGED <<money, hands_remaining, discards_remaining, deck, hand,
                   selected_indices, jokers, consumables, hand_levels, round_score, shop>>

\* RunState::skip_blind
skip_blind ==
    /\ advance_blind([blind_outcomes EXCEPT ![current_blind_index + 1] = "Skipped"])
    /\ UNCHANGED <<money, hands_remaining, discards_remaining, deck, hand,
                   selected_indices, jokers, consumables, hand_levels, round_score, shop>>

\* add_score that stores the score in place of the sum
add_score_stores(current, score) == score

\* RunState::add_score
add_score(current, score) == current + score

\* use_hand that also counts down at 0
use_hand_unguarded(hands) == hands - 1

\* RunState::use_hand
use_hand(hands) == IF hands > 0 THEN hands - 1 ELSE hands

\* RunState::use_discard
use_discard(discards) == IF discards > 0 THEN discards - 1 ELSE discards

\* RunState::use_discard: the value returned
use_discard_returns(discards) == discards > 0

\* RunState::blind_beaten
blind_beaten(score, target) == score >= target

\* RunState::round_lost
round_lost(hands, score, target) == hands = 0 /\ ~blind_beaten(score, target)

\* RunState::run_won
run_won(current_ante) == current_ante > 8

\* Mutant of calculate_reward_breakdown: the interest is not capped.
calculate_reward_breakdown_no_cap ==
    LET blind_reward == reward(blind_type)
        hands_bonus == hands_remaining
        interest == money \div 5
        golden_joker_bonus ==
            Cardinality({i \in 1..Len(jokers) : jokers[i].joker_type = "GoldenJoker"}) * 4
    IN  [blind_reward |-> blind_reward,
         hands_bonus |-> hands_bonus,
         hands_remaining |-> hands_remaining,
         interest |-> interest,
         money_held |-> money,
         golden_joker_bonus |-> golden_joker_bonus,
         total |-> blind_reward + hands_bonus + interest + golden_joker_bonus]

\* RunState::calculate_reward_breakdown
calculate_reward_breakdown ==
    LET blind_reward == reward(blind_type)
        hands_bonus == hands_remaining
        fifths == money \div 5
        interest == IF fifths < 5 THEN fifths ELSE 5
        golden_joker_bonus ==
            Cardinality({i \in 1..Len(jokers) : jokers[i].joker_type = "GoldenJoker"}) * 4
    IN  [blind_reward |-> blind_reward,
         hands_bonus |-> hands_bonus,
         hands_remaining |-> hands_remaining,
         interest |-> interest,
         money_held |-> money,
         golden_joker_bonus |-> golden_joker_bonus,
         total |-> blind_reward + hands_bonus + interest + golden_joker_bonus]

\* RunState::calculate_reward
calculate_reward == calculate_reward_breakdown.total

\* Mutant of beat_blind: the hand cards go to the discard pile as they are.
beat_blind_keeps_debuffs ==
    /\ money' = money + calculate_reward
    /\ blinds_beaten' = blinds_beaten + 1
    /\ blind_outcomes' = [blind_outcomes EXCEPT ![current_blind_index + 1] = "Beaten"]
    /\ jokers' = [i \in 1..Len(jokers) |->
                     IF jokers[i].joker_type = "Egg"
                     THEN [jokers[i] EXCEPT !.bonus_sell = @ + 3]
                     ELSE jokers[i]]
    /\ ante_phase' = "Shop"
    /\ deck' = discard_cards(deck, hand)
    /\ hand' = <<>>
    /\ selected_indices' = <<>>
    /\ \E generated \in Shop_generate : shop' = {generated}
    /\ UNCHANGED <<ante, blind_type, hands_remaining, discards_remaining,
                   consumables, hand_levels, round_score, score_target,
                   boss_blind>>

\* RunState::beat_blind
beat_blind ==
    /\ money' = money + calculate_reward
    /\ blinds_beaten' = blinds_beaten + 1
    /\ blind_outcomes' = [blind_outcomes EXCEPT ![current_blind_index + 1] = "Beaten"]
    /\ jokers' = [i \in 1..Len(jokers) |->
                     IF jokers[i].joker_type = "Egg"
                     THEN [jokers[i] EXCEPT !.bonus_sell = @ + 3]
                     ELSE jokers[i]]
    /\ ante_phase' = "Shop"
    /\ deck' = discard_cards(deck, [i \in 1..Len(hand) |-> [hand[i] EXCEPT !.debuffed = FALSE]])
    /\ hand' = <<>>
    /\ selected_indices' = <<>>
    /\ \E generated \in Shop_generate : shop' = {generated}
    /\ UNCHANGED <<ante, blind_type, hands_remaining, discards_remaining,
                   consumables, hand_levels, round_score, score_target,
                   boss_blind>>

\* RunState::leave_shop
leave_shop ==
    /\ shop' = {}
    /\ advance_blind(blind_outcomes)
    /\ UNCHANGED <<money, hands_remaining, discards_remaining, deck, hand,
                   selected_indices, jokers, consumables, hand_levels, round_score>>

\* The selected indices in descending order (indices.sort_unstable_by(b.cmp(a)))
RECURSIVE Descending(_)
Descending(indices) ==
    IF indices = {} THEN <<>>
    ELSE LET top == CHOOSE i \in indices : \A j \in indices : j <= i
         IN  <<top>> \o Descending(indices \ {top})

\* hand.remove(idx) for every index of the descending list that is in range:
\* the cards left in the hand and the cards removed, in removal order
RECURSIVE remove_indices(_, _, _)
remove_indices(cards, indices, removed) ==
    IF indices = <<>> THEN [hand |-> cards, removed |-> removed]
    ELSE LET idx == Head(indices)
         IN  IF idx < Len(cards)
             THEN remove_indices(
                      SubSeq(cards, 1, idx) \o SubSeq(cards, idx + 2, Len(cards)),
                      Tail(indices), Append(removed, cards[idx + 1]))
             ELSE remove_indices(cards, Tail(indices), removed)

\* Vec::reverse
Reverse(s) == [i \in 1..Len(s) |-> s[Len(s) - i + 1]]

\* can_play without the rule of The Psychic
can_play_any_count ==
    /\ ~(hands_remaining = 0 \/ selected_indices = <<>>)
    /\ ~(Len(selected_indices) > 5)

\* RunState::can_play
can_play ==
    /\ ~(hands_remaining = 0 \/ selected_indices = <<>>)
    /\ ~(Len(selected_indices) > 5)
    /\ ~(/\ blind_type = Boss("ThePsychic")
         /\ Len(selected_indices) # 5)

\* RunState::can_discard
can_discard == discards_remaining > 0 /\ selected_indices # <<>>

\* toggle_select without the check of the index against the hand
toggle_select_no_range(idx) ==
    IF idx \in Range(selected_indices)
    THEN SelectSeq(selected_indices, LAMBDA i : i # idx)
    ELSE IF Len(selected_indices) < 5 THEN Append(selected_indices, idx)
         ELSE selected_indices

\* toggle_select without the limit of five selected cards
toggle_select_no_limit(idx) ==
    IF idx >= Len(hand) THEN selected_indices
    ELSE IF idx \in Range(selected_indices)
         THEN SelectSeq(selected_indices, LAMBDA i : i # idx)
         ELSE Append(selected_indices, idx)

\* RunState::toggle_select
toggle_select(idx) ==
    IF idx >= Len(hand) THEN selected_indices
    ELSE IF idx \in Range(selected_indices)
         THEN SelectSeq(selected_indices, LAMBDA i : i # idx)
         ELSE IF Len(selected_indices) < 5 THEN Append(selected_indices, idx)
              ELSE selected_indices

\* RunState::draw_to_hand_size: the deck and the hand afterwards
draw_to_hand_size(pile, cards, blind) ==
    LET need == IF hand_size > Len(cards) THEN hand_size - Len(cards) ELSE 0
        pulled == draw(pile, need)
    IN  IF need > 0
        THEN [deck |-> pulled.deck,
              hand |-> apply_boss_debuffs(cards \o pulled.drawn, blind)]
        ELSE [deck |-> pile, hand |-> cards]

\* The pairs of hand positions The Hook is taken to pick: two distinct
\* positions among the first HookSpan.
hook_picks(cards) ==
    {pick \in SUBSET (0..(Len(cards) - 1)) :
        Cardinality(pick) = 2 /\ \A i \in pick : i < HookSpan}

\* RunState::apply_hook_effect: the outcomes, deck and hand afterwards
apply_hook_effect(pile, cards, blind) ==
    IF blind = Boss("TheHook") /\ Len(cards) > 2
    THEN {LET taken == remove_indices(cards, Descending(pick), <<>>)
          IN  [deck |-> discard_cards(pile, taken.removed), hand |-> taken.hand] :
          pick \in hook_picks(cards)}
    ELSE {[deck |-> pile, hand |-> cards]}

\* RunState::selected_cards: the selected cards in selection order
selected_cards ==
    LET in_range == SelectSeq(selected_indices, LAMBDA i : i < Len(hand))
    IN  [k \in 1..Len(in_range) |-> hand[in_range[k] + 1]]

\* play_selected that removes the cards in selection order, without sorting
\* the indices first
play_selected_unsorted ==
    LET taken == remove_indices(hand, selected_indices, <<>>)
    IN  [hand |-> taken.hand, played |-> Reverse(taken.removed)]

\* RunState::play_selected: the hand left and the played cards in hand order
play_selected ==
    LET taken == remove_indices(hand, Descending(Range(selected_indices)), <<>>)
    IN  [hand |-> taken.hand, played |-> Reverse(taken.removed)]

\* discard_selected without the draw of replacements
discard_selected_no_draw ==
    LET taken == remove_indices(hand, Descending(Range(selected_indices)), <<>>)
    IN  [deck |-> discard_cards(deck, taken.removed),
         hand |-> apply_boss_debuffs(taken.hand, blind_type)]

\* RunState::discard_selected: the deck and the hand afterwards
discard_selected ==
    LET taken == remove_indices(hand, Descending(Range(selected_indices)), <<>>)
        pile == discard_cards(deck, taken.removed)
        need == IF hand_size > Len(taken.hand) THEN hand_size - Len(taken.hand) ELSE 0
        pulled == draw(pile, need)
    IN  [deck |-> pulled.deck,
         hand |-> apply_boss_debuffs(taken.hand \o pulled.drawn, blind_type)]

\* ------------------------------------------------------------------------
\* app.rs: App::process_action on the actions the screens raise
\* ------------------------------------------------------------------------

\* is_scoring that is true in the first phase of the animation only
is_scoring_first_phase == scoring_phase = "ShowingPlayedCards"

\* PlayRoundScreen::is_scoring
is_scoring == scoring_phase \notin {"NotScoring", "Done"}

\* The state after ScreenAction::NewGame: a run from RunState::with_seed on
\* the blind-select screen.
Init ==
    /\ with_seed
    /\ phase = "BlindSelect"
    /\ scoring_phase = "NotScoring"
    /\ scoring_result = {}
    /\ blind_just_beaten = FALSE
    /\ played_cards = <<>>
    /\ toggles = 0
    /\ calls = 0
    /\ rng = seed_from_u64(0)
    /\ seen = NothingSeen
    /\ pool = {}
    /\ hand_result = detect_hand(<<>>)
    /\ score_result = calculate_score(<<>>, hand_levels)
    /\ joker_effects = <<>>

\* ScreenAction::StartBlind, raised by the blind-select screen
StartBlind ==
    /\ phase = "BlindSelect"
    /\ start_blind
    /\ blind_just_beaten' = FALSE
    /\ scoring_phase' = "NotScoring"
    /\ scoring_result' = {}
    /\ played_cards' = <<>>
    /\ phase' = "Playing"
    /\ UNCHANGED <<pool, hand_result, score_result, joker_effects, toggles,
                   calls, rng, seen>>

\* ScreenAction::SkipBlind, raised by the blind-select screen
SkipBlind ==
    /\ phase = "BlindSelect"
    /\ skip_blind
    /\ UNCHANGED <<phase, scoring_phase, scoring_result, blind_just_beaten,
                   played_cards, pool, hand_result, score_result, joker_effects,
                   toggles, calls, rng, seen>>

\* The play screen takes card, play and discard input only while the blind
\* is not beaten and no hand is being scored.
PlayInputOpen ==
    /\ phase = "Playing"
    /\ ~blind_just_beaten
    /\ ~is_scoring

\* ScreenAction::ToggleCard(idx)
ToggleCard ==
    \E idx \in 0..(MaxToggleIdx - 1) :
        /\ PlayInputOpen
        /\ toggles < MaxToggles
        /\ toggles' = toggles + 1
        /\ selected_indices' = toggle_select(idx)
        /\ UNCHANGED <<scoreVars, jokerVars, consumables, tableVars, phase, ante, blind_type,
                       ante_phase, money, hands_remaining, deck, round_score,
                       score_target, boss_blind, blinds_beaten, blind_outcomes,
                       shop, scoring_phase, scoring_result, blind_just_beaten,
                       calls, rng, seen>>

\* ScreenAction::PlayHand
PlayHand ==
    /\ PlayInputOpen
    /\ IF can_play /\ ~is_scoring
       THEN LET play == play_selected
                result == calculate_score_with_jokers(play.played, hand_levels, jokers,
                                                      play.hand, discards_remaining)
            IN  /\ hand' = play.hand
                /\ selected_indices' = <<>>
                /\ hands_remaining' = use_hand(hands_remaining)
                /\ played_cards' = play.played
                /\ scoring_result' = {result}
                /\ scoring_phase' = "ShowingPlayedCards"
       ELSE UNCHANGED <<hand, selected_indices, hands_remaining, played_cards,
                        scoring_result, scoring_phase>>
    /\ UNCHANGED <<pool, hand_levels, hand_result, score_result, jokerVars, consumables,
                   discards_remaining, phase, ante, blind_type, ante_phase, money,
                   deck, round_score, score_target, boss_blind, blinds_beaten,
                   blind_outcomes, shop, blind_just_beaten, toggles,
                   calls, rng, seen>>

\* ScreenAction::FinishScoring, raised when the scoring animation has run to
\* its end or is skipped by a key
FinishScoring ==
    /\ phase = "Playing"
    /\ is_scoring
    /\ scoring_phase' = "NotScoring"
    /\ played_cards' = <<>>
    /\ scoring_result' = {}
    /\ IF scoring_result # {}
       THEN LET result == CHOOSE r \in scoring_result : TRUE
                score == add_score(round_score, result.final_score)
                drawn == draw_to_hand_size(deck, hand, blind_type)
            IN  /\ round_score' = score
                /\ \E hooked \in apply_hook_effect(drawn.deck, drawn.hand, blind_type) :
                       /\ deck' = hooked.deck
                       /\ hand' = hooked.hand
                /\ IF blind_beaten(score, score_target)
                   THEN blind_just_beaten' = TRUE /\ phase' = phase
                   ELSE /\ blind_just_beaten' = blind_just_beaten
                        /\ phase' = IF round_lost(hands_remaining, score, score_target)
                                    THEN "GameOverLost" ELSE phase
       ELSE UNCHANGED <<round_score, deck, hand, blind_just_beaten, phase>>
    /\ UNCHANGED <<pool, hand_levels, hand_result, score_result, jokerVars, consumables,
                   discards_remaining, ante, blind_type, ante_phase, money,
                   hands_remaining, selected_indices, score_target, boss_blind,
                   blinds_beaten, blind_outcomes, shop, toggles, calls, rng, seen>>

\* ScreenAction::Discard
Discard ==
    /\ PlayInputOpen
    /\ IF can_discard
       THEN LET after == discard_selected
            IN  /\ discards_remaining' = use_discard(discards_remaining)
                /\ deck' = after.deck
                /\ hand' = after.hand
                /\ selected_indices' = <<>>
       ELSE UNCHANGED <<discards_remaining, deck, hand, selected_indices>>
    /\ UNCHANGED <<scoreVars, jokerVars, consumables, phase, ante, blind_type, ante_phase, money,
                   hands_remaining, round_score, score_target, boss_blind,
                   blinds_beaten, blind_outcomes, shop, scoring_phase,
                   scoring_result, blind_just_beaten, toggles, calls, rng, seen>>

\* ScreenAction::BeatBlind, raised by Enter once the blind is beaten
BeatBlind ==
    /\ phase = "Playing"
    /\ blind_just_beaten
    /\ blind_just_beaten' = FALSE
    /\ beat_blind
    /\ phase' = IF run_won(ante) THEN "GameOverWon" ELSE "Shop"
    /\ UNCHANGED <<scoreVars, joker_effects, scoring_phase, scoring_result, toggles,
                   calls, rng, seen>>

\* ScreenAction::LeaveShop
LeaveShop ==
    /\ phase = "Shop"
    /\ leave_shop
    /\ phase' = "BlindSelect"
    /\ UNCHANGED <<scoreVars, joker_effects, scoring_phase, scoring_result,
                   blind_just_beaten, toggles, calls, rng, seen>>

Next ==
    \/ StartBlind
    \/ SkipBlind
    \/ ToggleCard
    \/ PlayHand
    \/ FinishScoring
    \/ Discard
    \/ BeatBlind
    \/ LeaveShop

Spec == Init /\ [][Next]_vars

\* ------------------------------------------------------------------------
\* app.rs: whole runs of a player who picks the cards from the left end of
\* the hand and plays five of them
\* ------------------------------------------------------------------------

\* ScreenAction::ToggleCard(idx) for the first hand position not picked yet
PickCard ==
    /\ PlayInputOpen
    /\ Len(selected_indices) < 5
    /\ selected_indices' = toggle_select(Len(selected_indices))
    /\ UNCHANGED <<scoreVars, jokerVars, consumables, tableVars, phase, ante, blind_type,
                   ante_phase, money, hands_remaining, deck, round_score,
                   score_target, boss_blind, blinds_beaten, blind_outcomes,
                   shop, scoring_phase, scoring_result, blind_just_beaten,
                   toggles, calls, rng, seen>>

\* ScreenAction::PlayHand with five cards picked
PlayFive == Len(selected_indices) = 5 /\ PlayHand

RoundsNext ==
    \/ StartBlind
    \/ SkipBlind
    \/ PickCard
    \/ PlayFive
    \/ FinishScoring
    \/ BeatBlind
    \/ LeaveShop

SpecRounds == Init /\ [][RoundsNext]_vars

\* ------------------------------------------------------------------------
\* run.rs: the public methods of RunState called in any order
\* ------------------------------------------------------------------------

\* The variables that are not fields of RunState
screenVars ==
    <<pool, hand_result, score_result, joker_effects, phase, scoring_phase,
      scoring_result, blind_just_beaten, toggles>>

\* The amounts add_score is called with
ScoreAmounts == {0, 300}

\* buy_shop_item_returns without the capacity check
buy_shop_item_returns_no_capacity(index) ==
    /\ shop # {}
    /\ LET open == CHOOSE s \in shop : TRUE
       IN  /\ index < Len(open.items)
           /\ ~(money < item_price(open.items[index + 1]))

\* RunState::buy_shop_item: the value returned
buy_shop_item_returns(index) ==
    /\ shop # {}
    /\ LET open == CHOOSE s \in shop : TRUE
       IN  /\ index < Len(open.items)
           /\ LET item == open.items[index + 1]
              IN  /\ ~(money < item_price(item))
                  /\ IF item.item = "JokerItem"
                     THEN ~(Len(jokers) >= max_jokers)
                     ELSE ~(Len(consumables) >= max_consumables)

\* RunState::buy_shop_item
buy_shop_item(index) ==
    /\ IF buy_shop_item_returns(index)
       THEN LET open == CHOOSE s \in shop : TRUE
                bought == Shop_buy(open, index)
                item == CHOOSE i \in bought.item : TRUE
            IN  /\ shop' = {bought.shop}
                /\ money' = money - item_price(item)
                /\ IF item.item = "JokerItem"
                   THEN /\ jokers' = Append(jokers, item.joker)
                        /\ UNCHANGED consumables
                   ELSE /\ consumables' = Append(consumables, item.consumable)
                        /\ UNCHANGED jokers
       ELSE UNCHANGED <<money, jokers, consumables, shop>>
    /\ UNCHANGED <<ante, blind_type, ante_phase, hands_remaining,
                   discards_remaining, deck, hand, selected_indices,
                   hand_levels, round_score, score_target, boss_blind,
                   blinds_beaten, blind_outcomes>>

\* Vec::remove(index)
RemoveAt(s, index) == SubSeq(s, 1, index) \o SubSeq(s, index + 2, Len(s))

\* Joker::total_sell_value
total_sell_value(joker) == joker.sell_value + joker.bonus_sell

\* RunState::sell_joker: the value returned
sell_joker_returns(index) == ~(index >= Len(jokers))

\* RunState::sell_joker
sell_joker(index) ==
    /\ IF sell_joker_returns(index)
       THEN /\ jokers' = RemoveAt(jokers, index)
            /\ money' = money + total_sell_value(jokers[index + 1])
       ELSE UNCHANGED <<money, jokers>>
    /\ UNCHANGED <<ante, blind_type, ante_phase, hands_remaining,
                   discards_remaining, deck, hand, selected_indices, consumables,
                   hand_levels, round_score, score_target, boss_blind,
                   blinds_beaten, blind_outcomes, shop>>

\* RunState::reroll_shop: the value returned
reroll_shop_returns ==
    /\ shop # {}
    /\ ~(money < (CHOOSE s \in shop : TRUE).reroll_cost)

\* RunState::reroll_shop
reroll_shop ==
    /\ IF reroll_shop_returns
       THEN LET old_cost == (CHOOSE s \in shop : TRUE).reroll_cost
            IN  /\ money' = money - old_cost
                /\ \E generated \in Shop_generate :
                       shop' = {[generated EXCEPT !.reroll_cost = old_cost + 1]}
       ELSE UNCHANGED <<money, shop>>
    /\ UNCHANGED <<ante, blind_type, ante_phase, hands_remaining,
                   discards_remaining, deck, hand, selected_indices, jokers,
                   consumables, hand_levels, round_score, score_target,
                   boss_blind, blinds_beaten, blind_outcomes>>

\* RunState::use_planet: the value returned
use_planet_returns(consumable_index) ==
    /\ ~(consumable_index >= Len(consumables))
    /\ consumables[consumable_index + 1].consumable_type.kind = "Planet"

\* RunState::use_planet
use_planet(consumable_index) ==
    /\ IF use_planet_returns(consumable_index)
       THEN LET planet == consumables[consumable_index + 1].consumable_type.card
            IN  /\ hand_levels' = level_up(hand_levels, hand_type(planet))
                /\ consumables' = RemoveAt(consumables, consumable_index)
       ELSE UNCHANGED <<hand_levels, consumables>>
    /\ UNCHANGED <<ante, blind_type, ante_phase, money, hands_remaining,
                   discards_remaining, deck, hand, selected_indices, jokers,
                   round_score, score_target, boss_blind, blinds_beaten,
                   blind_outcomes, shop>>

\* RunState::use_tarot: the value returned
use_tarot_returns(consumable_index) ==
    /\ ~(consumable_index >= Len(consumables))
    /\ consumables[consumable_index + 1].consumable_type.kind = "Tarot"
    /\ LET needed == cards_needed(consumables[consumable_index + 1].consumable_type.card)
           min == needed[1]
           max == needed[2]
           selected_count == Len(selected_indices)
       IN  ~(min > 0 /\ (selected_count < min \/ selected_count > max))

\* The hand with the enhancement set on the cards at the indices in range
enhance(cards, indices, enhancement) ==
    [i \in 1..Len(cards) |->
        IF (i - 1) \in indices
        THEN [cards[i] EXCEPT !.enhancement = enhancement]
        ELSE cards[i]]

\* The first selected index, in a set
first_selected == {selected_indices[i] : i \in {1} \cap DOMAIN selected_indices}

\* Strength: the rank one higher, the ace turning into a two
next_rank(rank) == IF rank = Ace THEN 2 ELSE rank + 1

\* RunState::use_tarot: the hand afterwards
tarot_hand(tarot) ==
    CASE tarot = "TheHierophant" -> enhance(hand, Range(selected_indices), "Bonus")
      [] tarot = "TheEmpress" -> enhance(hand, Range(selected_indices), "Mult")
      [] tarot = "TheMagician" -> enhance(hand, Range(selected_indices), "Lucky")
      [] tarot = "TheLover" -> enhance(hand, first_selected, "Wild")
      [] tarot = "TheChariot" -> enhance(hand, first_selected, "Steel")
      [] tarot = "Strength" ->
             [i \in 1..Len(hand) |->
                 IF (i - 1) \in Range(selected_indices)
                 THEN [hand[i] EXCEPT !.rank = next_rank(@)]
                 ELSE hand[i]]
      [] OTHER -> hand

\* jokers.iter().map(|j| j.total_sell_value()).sum()
RECURSIVE SumSell(_)
SumSell(owned) ==
    IF owned = <<>> THEN 0
    ELSE total_sell_value(Head(owned)) + SumSell(Tail(owned))

\* RunState::use_tarot: the money afterwards
tarot_money(tarot) ==
    CASE tarot = "TheHermit" -> money + (IF money < 20 THEN money ELSE 20)
      [] tarot = "Temperance" ->
             LET total_sell == SumSell(jokers)
             IN  money + (IF total_sell < 50 THEN total_sell ELSE 50)
      [] OTHER -> money

\* RunState::use_tarot
use_tarot(consumable_index) ==
    /\ IF use_tarot_returns(consumable_index)
       THEN LET tarot == consumables[consumable_index + 1].consumable_type.card
            IN  /\ hand' = tarot_hand(tarot)
                /\ money' = tarot_money(tarot)
                /\ consumables' = RemoveAt(consumables, consumable_index)
       ELSE UNCHANGED <<hand, money, consumables>>
    /\ UNCHANGED <<ante, blind_type, ante_phase, hands_remaining,
                   discards_remaining, deck, selected_indices, jokers,
                   hand_levels, round_score, score_target, boss_blind,
                   blinds_beaten, blind_outcomes, shop>>

\* The state a new RunState is in: RunState::with_seed, no screen involved
ApiInit ==
    /\ with_seed
    /\ phase = "MainMenu"
    /\ scoring_phase = "NotScoring"
    /\ scoring_result = {}
    /\ blind_just_beaten = FALSE
    /\ played_cards = <<>>
    /\ toggles = 0
    /\ calls = 0
    /\ rng = seed_from_u64(0)
    /\ seen = NothingSeen
    /\ pool = {}
    /\ hand_result = detect_hand(<<>>)
    /\ score_result = calculate_score(<<>>, hand_levels)
    /\ joker_effects = <<>>

\* One more method of RunState is called
Called ==
    /\ calls < MaxCalls
    /\ calls' = calls + 1
    /\ UNCHANGED <<rng, seen>>
    /\ UNCHANGED screenVars

Call_start_blind == Called /\ start_blind /\ UNCHANGED played_cards

Call_skip_blind == Called /\ skip_blind /\ UNCHANGED played_cards

Call_add_score ==
    \E score \in ScoreAmounts :
        /\ Called
        /\ round_score' = add_score(round_score, score)
        /\ UNCHANGED <<ante, blind_type, ante_phase, money, hands_remaining,
                       discards_remaining, deck, hand, selected_indices, jokers, consumables,
                       hand_levels, score_target, boss_blind, blinds_beaten,
                       blind_outcomes, shop, played_cards>>

Call_use_hand ==
    /\ Called
    /\ hands_remaining' = use_hand(hands_remaining)
    /\ UNCHANGED <<ante, blind_type, ante_phase, money, discards_remaining, deck,
                   hand, selected_indices, jokers, consumables, hand_levels, round_score,
                   score_target, boss_blind, blinds_beaten, blind_outcomes, shop,
                   played_cards>>

Call_use_discard ==
    /\ Called
    /\ discards_remaining' = use_discard(discards_remaining)
    /\ UNCHANGED <<ante, blind_type, ante_phase, money, hands_remaining, deck,
                   hand, selected_indices, jokers, consumables, hand_levels, round_score,
                   score_target, boss_blind, blinds_beaten, blind_outcomes, shop,
                   played_cards>>

Call_beat_blind == Called /\ beat_blind /\ UNCHANGED played_cards

Call_leave_shop == Called /\ leave_shop /\ UNCHANGED played_cards

Call_discard_selected ==
    /\ Called
    /\ LET after == discard_selected
       IN  /\ deck' = after.deck
           /\ hand' = after.hand
    /\ selected_indices' = <<>>
    /\ UNCHANGED <<ante, blind_type, ante_phase, money, hands_remaining,
                   discards_remaining, jokers, consumables, hand_levels, round_score,
                   score_target, boss_blind, blinds_beaten, blind_outcomes, shop,
                   played_cards>>

\* play_selected returns the played cards to its caller
Call_play_selected ==
    /\ Called
    /\ LET play == play_selected
       IN  /\ hand' = play.hand
           /\ played_cards' = play.played
    /\ selected_indices' = <<>>
    /\ UNCHANGED <<ante, blind_type, ante_phase, money, hands_remaining,
                   discards_remaining, deck, jokers, consumables, hand_levels, round_score,
                   score_target, boss_blind, blinds_beaten, blind_outcomes, shop>>

Call_draw_to_hand_size ==
    /\ Called
    /\ LET drawn == draw_to_hand_size(deck, hand, blind_type)
       IN  /\ deck' = drawn.deck
           /\ hand' = drawn.hand
    /\ UNCHANGED <<ante, blind_type, ante_phase, money, hands_remaining,
                   discards_remaining, selected_indices, jokers, consumables, hand_levels,
                   round_score, score_target, boss_blind, blinds_beaten,
                   blind_outcomes, shop, played_cards>>

Call_apply_hook_effect ==
    /\ Called
    /\ \E hooked \in apply_hook_effect(deck, hand, blind_type) :
           /\ deck' = hooked.deck
           /\ hand' = hooked.hand
    /\ UNCHANGED <<ante, blind_type, ante_phase, money, hands_remaining,
                   discards_remaining, selected_indices, jokers, consumables, hand_levels,
                   round_score, score_target, boss_blind, blinds_beaten,
                   blind_outcomes, shop, played_cards>>

\* toggle_select(idx): the cards are picked from the left end of the hand
\* and put back from the right, so idx is the position after the picked
\* ones or the last picked one.
Call_toggle_select ==
    \E idx \in 0..MaxSelectIdx :
        /\ calls < MaxCalls
        /\ idx \in {Len(selected_indices), Len(selected_indices) - 1}
        /\ selected_indices' = toggle_select(idx)
        /\ UNCHANGED <<ante, blind_type, ante_phase, money, hands_remaining,
                       discards_remaining, deck, hand, jokers, consumables, hand_levels,
                       round_score, score_target, boss_blind, blinds_beaten,
                       blind_outcomes, shop, played_cards, calls, rng, seen, screenVars>>

Call_buy_shop_item ==
    \E index \in 0..MaxShopIdx :
        /\ Called
        /\ buy_shop_item(index)
        /\ UNCHANGED played_cards

Call_sell_joker ==
    \E index \in 0..MaxSlotIdx :
        /\ Called
        /\ sell_joker(index)
        /\ UNCHANGED played_cards

Call_reroll_shop == Called /\ reroll_shop /\ UNCHANGED played_cards

Call_use_planet ==
    \E consumable_index \in 0..MaxSlotIdx :
        /\ Called
        /\ use_planet(consumable_index)
        /\ UNCHANGED played_cards

Call_use_tarot ==
    \E consumable_index \in 0..MaxSlotIdx :
        /\ Called
        /\ use_tarot(consumable_index)
        /\ UNCHANGED played_cards

ApiNext ==
    \/ Call_start_blind
    \/ Call_skip_blind
    \/ Call_add_score
    \/ Call_use_hand
    \/ Call_use_discard
    \/ Call_beat_blind
    \/ Call_leave_shop
    \/ Call_discard_selected
    \/ Call_play_selected
    \/ Call_draw_to_hand_size
    \/ Call_apply_hook_effect
    \/ Call_toggle_select
    \/ Call_buy_shop_item
    \/ Call_sell_joker
    \/ Call_reroll_shop
    \/ Call_use_planet
    \/ Call_use_tarot

SpecApi == ApiInit /\ [][ApiNext]_vars

\* ------------------------------------------------------------------------
\* run.rs: toggle_select called with any index, in any order, on the hand
\* start_blind deals and on the empty hand before it
\* ------------------------------------------------------------------------

StartOnce == calls = 0 /\ Call_start_blind

\* toggle_select(idx) for every position of the hand and the one past it
SelectCard ==
    \E idx \in 0..hand_size :
        /\ selected_indices' = toggle_select(idx)
        /\ UNCHANGED <<ante, blind_type, ante_phase, money, hands_remaining,
                       discards_remaining, deck, hand, jokers, consumables, hand_levels,
                       round_score, score_target, boss_blind, blinds_beaten,
                       blind_outcomes, shop, played_cards, calls, rng, seen, screenVars>>

SelectNext == StartOnce \/ SelectCard

SpecSelect == ApiInit /\ [][SelectNext]_vars

\* ------------------------------------------------------------------------
\* run.rs: play_selected called once on a hand whose cards were selected in
\* any order
\* ------------------------------------------------------------------------

\* toggle_select(idx) until the hand is played
Play_toggle_select == calls <= 1 /\ SelectCard

\* play_selected on the hand start_blind dealt
Play_play_selected == calls = 1 /\ Call_play_selected

PlayNext == StartOnce \/ Play_toggle_select \/ Play_play_selected

SpecPlay == ApiInit /\ [][PlayNext]_vars

\* ------------------------------------------------------------------------
\* run.rs: the methods that write hands_remaining and discards_remaining,
\* called in any order
\* ------------------------------------------------------------------------

Counted ==
    /\ calls < MaxCounterCalls
    /\ calls' = calls + 1
    /\ UNCHANGED <<rng, seen>>
    /\ UNCHANGED <<screenVars, played_cards>>

Count_start_blind == Counted /\ start_blind

Count_skip_blind == Counted /\ skip_blind

Count_use_hand ==
    /\ Counted
    /\ hands_remaining' = use_hand(hands_remaining)
    /\ UNCHANGED <<ante, blind_type, ante_phase, money, discards_remaining, deck,
                   hand, selected_indices, jokers, consumables, hand_levels, round_score,
                   score_target, boss_blind, blinds_beaten, blind_outcomes, shop>>

Count_use_discard ==
    /\ Counted
    /\ discards_remaining' = use_discard(discards_remaining)
    /\ UNCHANGED <<ante, blind_type, ante_phase, money, hands_remaining, deck,
                   hand, selected_indices, jokers, consumables, hand_levels, round_score,
                   score_target, boss_blind, blinds_beaten, blind_outcomes, shop>>

CountersNext ==
    \/ Count_start_blind
    \/ Count_skip_blind
    \/ Count_use_hand
    \/ Count_use_discard

SpecCounters == ApiInit /\ [][CountersNext]_vars

\* ------------------------------------------------------------------------
\* run.rs: the methods that write money, jokers, consumables and shop,
\* called in any order
\* ------------------------------------------------------------------------

Shopped ==
    /\ calls < MaxShopCalls
    /\ calls' = calls + 1
    /\ UNCHANGED <<rng, seen>>
    /\ UNCHANGED <<screenVars, played_cards>>

Shop_beat_blind == Shopped /\ beat_blind

Shop_buy_shop_item == \E index \in 0..MaxShopIdx : Shopped /\ buy_shop_item(index)

Shop_sell_joker == \E index \in 0..MaxSlotIdx : Shopped /\ sell_joker(index)

Shop_reroll_shop == Shopped /\ reroll_shop

Shop_use_planet ==
    \E consumable_index \in 0..MaxSlotIdx : Shopped /\ use_planet(consumable_index)

Shop_use_tarot ==
    \E consumable_index \in 0..MaxSlotIdx : Shopped /\ use_tarot(consumable_index)

ShopNext ==
    \/ Shop_beat_blind
    \/ Shop_buy_shop_item
    \/ Shop_sell_joker
    \/ Shop_reroll_shop
    \/ Shop_use_planet
    \/ Shop_use_tarot

\* The new RunState of one seed: one of the decks and bosses of with_seed
ShopInit ==
    /\ ApiInit
    /\ deck = CHOOSE shuffled \in shuffle(Deck_standard) : TRUE
    /\ boss_blind = BossBlind_ALL[1]

SpecShop == ShopInit /\ [][ShopNext]_vars

\* ------------------------------------------------------------------------
\* shop.rs, run.rs: the shop of a run rerolled through RunState::reroll_shop
\* and through Shop::reroll
\* ------------------------------------------------------------------------

Rerolled ==
    /\ calls < MaxRerollCalls
    /\ calls' = calls + 1
    /\ UNCHANGED <<rng, seen>>
    /\ UNCHANGED <<screenVars, played_cards>>

Reroll_beat_blind == Rerolled /\ beat_blind

Reroll_reroll_shop == Rerolled /\ reroll_shop

\* run.shop.as_mut().unwrap().reroll(rng, ante)
Reroll_Shop_reroll ==
    /\ Rerolled
    /\ shop # {}
    /\ \E open \in shop : \E rerolled \in Shop_reroll(open) : shop' = {rerolled}
    /\ UNCHANGED <<ante, blind_type, ante_phase, money, hands_remaining,
                   discards_remaining, deck, hand, selected_indices, jokers,
                   consumables, hand_levels, round_score, score_target,
                   boss_blind, blinds_beaten, blind_outcomes>>

RerollNext ==
    \/ Reroll_beat_blind
    \/ Reroll_reroll_shop
    \/ Reroll_Shop_reroll

SpecReroll == ShopInit /\ [][RerollNext]_vars

\* ------------------------------------------------------------------------
\* run.rs: two runs made by RunState::with_seed from one seed, the calls made
\* on the first made again on the second
\* ------------------------------------------------------------------------

\* What a run shows: hand, draw and discard pile, shop items, boss_blind
Shown ==
    [hand |-> hand, deck |-> deck, items |-> {open.items : open \in shop},
     boss_blind |-> boss_blind]

\* RunState::with_seed(seed): the deck shuffled and the boss drawn with the
\* generator of the seed
SeedInit ==
    \E seed \in 0..MaxSeed :
        /\ with_seed
        /\ deck \in seeded(shuffle(Deck_standard), seed_from_u64(seed))
        /\ boss_blind \in seeded(random_boss, advance(seed_from_u64(seed)))
        /\ rng = advance(advance(seed_from_u64(seed)))
        /\ seen = [again |-> FALSE, seed |-> seed, first |-> Shown, steps |-> <<>>]
        /\ phase = "MainMenu"
        /\ scoring_phase = "NotScoring"
        /\ scoring_result = {}
        /\ blind_just_beaten = FALSE
        /\ played_cards = <<>>
        /\ toggles = 0
        /\ calls = 0
        /\ pool = {}
        /\ hand_result = detect_hand(<<>>)
        /\ score_result = calculate_score(<<>>, hand_levels)
        /\ joker_effects = <<>>

\* The first run is left and a second RunState::with_seed(seed) is made
Seed_again ==
    /\ ~seen.again
    /\ ante' = 1
    /\ blind_type' = Small
    /\ ante_phase' = "BlindSelect"
    /\ money' = 4
    /\ hands_remaining' = 4
    /\ discards_remaining' = 3
    /\ deck' \in seeded(shuffle(Deck_standard), seed_from_u64(seen.seed))
    /\ hand' = <<>>
    /\ selected_indices' = <<>>
    /\ jokers' = <<>>
    /\ consumables' = <<>>
    /\ hand_levels' = HandLevels_new
    /\ round_score' = 0
    /\ score_target' = score_target_of(1, Small)
    /\ boss_blind' \in seeded(random_boss, advance(seed_from_u64(seen.seed)))
    /\ blinds_beaten' = 0
    /\ blind_outcomes' = <<"Active", "Upcoming", "Upcoming">>
    /\ shop' = {}
    /\ rng' = advance(advance(seed_from_u64(seen.seed)))
    /\ seen' = [seen EXCEPT !.again = TRUE]
    /\ calls' = 0
    /\ UNCHANGED <<screenVars, played_cards>>

\* One more call: any on the first run, the one the first run made at this
\* place on the second
Seeded(method, index) ==
    /\ IF seen.again
       THEN /\ calls < Len(seen.steps)
            /\ seen.steps[calls + 1].method = method
            /\ seen.steps[calls + 1].index = index
       ELSE calls < MaxSeedCalls
    /\ calls' = calls + 1
    /\ UNCHANGED <<screenVars, played_cards>>

\* What the first run shows after the call is kept
Kept(method, index) ==
    seen' = IF seen.again THEN seen
            ELSE [seen EXCEPT !.steps =
                     Append(@, [method |-> method, index |-> index, shown |-> Shown'])]

\* start_blind: deck.reset_and_shuffle(&mut self.rng)
Seed_start_blind ==
    /\ Seeded("start_blind", 0)
    /\ start_blind
    /\ \E shuffled \in seeded(reset_and_shuffle(deck), rng) :
           LET pulled == draw(shuffled, hand_size)
           IN  /\ deck' = pulled.deck
               /\ hand' = apply_boss_debuffs(pulled.drawn, blind_type)
    /\ rng' = advance(rng)
    /\ Kept("start_blind", 0)

\* advance_blind: random_boss(&mut self.rng) when the Boss blind is left
Seed_advance_blind ==
    IF blind_type.blind = "Boss"
    THEN /\ boss_blind' \in seeded(random_boss, rng)
         /\ rng' = advance(rng)
    ELSE rng' = rng

Seed_skip_blind ==
    /\ Seeded("skip_blind", 0)
    /\ skip_blind
    /\ Seed_advance_blind
    /\ Kept("skip_blind", 0)

\* beat_blind: Shop::generate(&mut self.rng, self.ante)
Seed_beat_blind ==
    /\ Seeded("beat_blind", 0)
    /\ beat_blind
    /\ \E generated \in seeded(Shop_generate, rng) : shop' = {generated}
    /\ rng' = advance(rng)
    /\ Kept("beat_blind", 0)

Seed_leave_shop ==
    /\ Seeded("leave_shop", 0)
    /\ leave_shop
    /\ Seed_advance_blind
    /\ Kept("leave_shop", 0)

\* reroll_shop: Shop::generate(&mut self.rng, ante) when it returns true
Seed_reroll_shop ==
    /\ Seeded("reroll_shop", 0)
    /\ reroll_shop
    /\ IF reroll_shop_returns
       THEN /\ \E generated \in seeded(Shop_generate, rng) :
                   \A open \in shop' : open.items = generated.items
            /\ rng' = advance(rng)
       ELSE rng' = rng
    /\ Kept("reroll_shop", 0)

Seed_toggle_select ==
    \E idx \in 0..MaxSeedIdx :
        /\ Seeded("toggle_select", idx)
        /\ selected_indices' = toggle_select(idx)
        /\ UNCHANGED <<ante, blind_type, ante_phase, money, hands_remaining,
                       discards_remaining, deck, hand, jokers, consumables,
                       hand_levels, round_score, score_target, boss_blind,
                       blinds_beaten, blind_outcomes, shop, rng>>
        /\ Kept("toggle_select", idx)

Seed_discard_selected ==
    /\ Seeded("discard_selected", 0)
    /\ LET after == discard_selected
       IN  /\ deck' = after.deck
           /\ hand' = after.hand
    /\ selected_indices' = <<>>
    /\ UNCHANGED <<ante, blind_type, ante_phase, money, hands_remaining,
                   discards_remaining, jokers, consumables, hand_levels,
                   round_score, score_target, boss_blind, blinds_beaten,
                   blind_outcomes, shop, rng>>
    /\ Kept("discard_selected", 0)

Seed_buy_shop_item ==
    \E index \in 0..MaxSeedIdx :
        /\ Seeded("buy_shop_item", index)
        /\ buy_shop_item(index)
        /\ rng' = rng
        /\ Kept("buy_shop_item", index)

SeedNext ==
    \/ Seed_start_blind
    \/ Seed_skip_blind
    \/ Seed_beat_blind
    \/ Seed_leave_shop
    \/ Seed_reroll_shop
    \/ Seed_toggle_select
    \/ Seed_discard_selected
    \/ Seed_buy_shop_item
    \/ Seed_again

SpecSeed == SeedInit /\ [][SeedNext]_vars

\* ------------------------------------------------------------------------
\* app.rs: a run that has come to ante 8 by skipping every blind before it,
\* played with hands that score what the jokers of a late run make them score
\* ------------------------------------------------------------------------

\* The final scores of the hands played: short of every target of ante 8,
\* and above every one
WinScores == {0, 200000}

\* The run after ScreenAction::NewGame and 21 times ScreenAction::SkipBlind
WinInit ==
    /\ ante = LastAnte
    /\ blind_type = Small
    /\ ante_phase = "BlindSelect"
    /\ money = 4
    /\ hands_remaining = 4
    /\ discards_remaining = 3
    /\ deck = CHOOSE shuffled \in shuffle(Deck_standard) : TRUE
    /\ hand = <<>>
    /\ selected_indices = <<>>
    /\ jokers = <<>>
    /\ consumables = <<>>
    /\ hand_levels = HandLevels_new
    /\ round_score = 0
    /\ score_target = score_target_of(LastAnte, Small)
    /\ boss_blind \in random_boss
    /\ blinds_beaten = 0
    /\ blind_outcomes = <<"Active", "Upcoming", "Upcoming">>
    /\ shop = {}
    /\ phase = "BlindSelect"
    /\ scoring_phase = "NotScoring"
    /\ scoring_result = {}
    /\ blind_just_beaten = FALSE
    /\ played_cards = <<>>
    /\ toggles = 0
    /\ calls = 0
    /\ rng = seed_from_u64(0)
    /\ seen = NothingSeen
    /\ pool = {}
    /\ hand_result = detect_hand(<<>>)
    /\ score_result = calculate_score(<<>>, hand_levels)
    /\ joker_effects = <<>>

\* ScreenAction::FinishScoring with the final score of the hand given
Win_FinishScoring ==
    \E final_score \in WinScores :
        /\ phase = "Playing"
        /\ is_scoring
        /\ scoring_phase' = "NotScoring"
        /\ played_cards' = <<>>
        /\ scoring_result' = {}
        /\ IF scoring_result # {}
           THEN LET score == add_score(round_score, final_score)
                    drawn == draw_to_hand_size(deck, hand, blind_type)
                IN  /\ round_score' = score
                    /\ \E hooked \in apply_hook_effect(drawn.deck, drawn.hand, blind_type) :
                           /\ deck' = hooked.deck
                           /\ hand' = hooked.hand
                    /\ IF blind_beaten(score, score_target)
                       THEN blind_just_beaten' = TRUE /\ phase' = phase
                       ELSE /\ blind_just_beaten' = blind_just_beaten
                            /\ phase' = IF round_lost(hands_remaining, score, score_target)
                                        THEN "GameOverLost" ELSE phase
           ELSE UNCHANGED <<round_score, deck, hand, blind_just_beaten, phase>>
        /\ UNCHANGED <<pool, hand_levels, hand_result, score_result, jokerVars, consumables,
                       discards_remaining, ante, blind_type, ante_phase, money,
                       hands_remaining, selected_indices, score_target, boss_blind,
                       blinds_beaten, blind_outcomes, shop, toggles, calls, rng, seen>>

WinNext ==
    \/ StartBlind
    \/ SkipBlind
    \/ ToggleCard
    \/ PlayHand
    \/ Win_FinishScoring
    \/ BeatBlind
    \/ LeaveShop

SpecWin == WinInit /\ [][WinNext]_vars

\* ------------------------------------------------------------------------
\* app.rs, play_round.rs: the scoring animation of a played hand, run by
\* App::tick or skipped by a key
\* ------------------------------------------------------------------------

\* PlayRoundScreen::tick_scoring: the phases a tick can leave behind and the
\* action it returns ({} for None). The timer of a phase and the index of
\* the step shown are not kept: a tick finds the timer at 0 or above it,
\* and the step shown is the last one or not.
tick_scoring(sp, result) ==
    CASE sp = "NotScoring" -> {[phase |-> sp, action |-> {}]}
      [] sp = "ShowingPlayedCards" ->
            {[phase |-> sp, action |-> {}],
             [phase |-> "ShowingHandType", action |-> {}]}
      [] sp = "ShowingHandType" ->
            {[phase |-> sp, action |-> {}],
             [phase |-> IF \E r \in result : 1 < Len(r.steps)
                        THEN "ScoringStep" ELSE "FinalScore",
              action |-> {}]}
      [] sp = "ScoringStep" ->
            {[phase |-> sp, action |-> {}],
             [phase |-> "FinalScore", action |-> {}]}
      [] sp = "FinalScore" ->
            {[phase |-> sp, action |-> {}],
             [phase |-> "Done", action |-> {"FinishScoring"}]}
      [] OTHER -> {[phase |-> sp, action |-> {}]}

\* App::tick while a hand is played: tick_scoring, and the FinishScoring it
\* returns is processed at once
Anim_tick ==
    /\ phase = "Playing"
    /\ is_scoring
    /\ \E out \in tick_scoring(scoring_phase, scoring_result) :
           IF out.action = {}
           THEN /\ scoring_phase' = out.phase
                /\ UNCHANGED <<pool, hand_levels, hand_result, score_result, jokerVars,
                               consumables, discards_remaining, phase, ante, blind_type,
                               ante_phase, money, hands_remaining, hand, deck,
                               selected_indices, round_score, score_target, boss_blind,
                               blinds_beaten, blind_outcomes, shop, scoring_result,
                               blind_just_beaten, played_cards, toggles, calls, rng, seen>>
           ELSE FinishScoring

\* PlayRoundScreen::handle_key with Space, Enter or P while a hand is
\* scored: skip_animation leaves the phase Done, and the FinishScoring
\* returned is processed
Anim_skip_key ==
    /\ phase = "Playing"
    /\ ~blind_just_beaten
    /\ is_scoring
    /\ FinishScoring

AnimNext ==
    \/ StartBlind
    \/ ToggleCard
    \/ PlayHand
    \/ Anim_tick
    \/ Anim_skip_key
    \/ Discard
    \/ BeatBlind
    \/ LeaveShop

SpecAnim == Init /\ [][AnimNext]_vars

\* ------------------------------------------------------------------------
\* run.rs: the methods of RunState that move cards between draw pile,
\* discard pile and hand, called in any order
\* ------------------------------------------------------------------------

\* The bosses the runs meet: one that discards, one that debuffs a suit
CardBosses == {"TheHook", "TheClub"}

\* The run after RunState::with_seed and two calls of skip_blind: the Boss
\* blind of ante 1 is the current one
CardsInit ==
    /\ ante = 1
    /\ boss_blind \in CardBosses
    /\ blind_type = Boss(boss_blind)
    /\ ante_phase = "BlindSelect"
    /\ money = 4
    /\ hands_remaining = 4
    /\ discards_remaining = 3
    /\ deck = CHOOSE shuffled \in shuffle(Deck_standard) : TRUE
    /\ hand = <<>>
    /\ selected_indices = <<>>
    /\ jokers = <<>>
    /\ consumables = <<>>
    /\ hand_levels = HandLevels_new
    /\ round_score = 0
    /\ score_target = score_target_of(1, blind_type)
    /\ blinds_beaten = 0
    /\ blind_outcomes = <<"Skipped", "Skipped", "Active">>
    /\ shop = {}
    /\ phase = "MainMenu"
    /\ scoring_phase = "NotScoring"
    /\ scoring_result = {}
    /\ blind_just_beaten = FALSE
    /\ played_cards = <<>>
    /\ toggles = 0
    /\ calls = 0
    /\ rng = seed_from_u64(0)
    /\ seen = NothingSeen
    /\ pool = {}
    /\ hand_result = detect_hand(<<>>)
    /\ score_result = calculate_score(<<>>, hand_levels)
    /\ joker_effects = <<>>

CardsCalled ==
    /\ calls < MaxCardCalls
    /\ calls' = calls + 1
    /\ UNCHANGED <<screenVars, rng, seen>>

Cards_start_blind == CardsCalled /\ start_blind /\ UNCHANGED played_cards

Cards_skip_blind ==
    /\ CardsCalled
    /\ skip_blind
    /\ boss_blind' \in CardBosses
    /\ UNCHANGED played_cards

\* The shop generated is taken to be one and the same every time
Cards_beat_blind ==
    /\ CardsCalled
    /\ beat_blind
    /\ shop' = {CHOOSE generated \in Shop_generate : TRUE}
    /\ UNCHANGED played_cards

Cards_leave_shop ==
    /\ CardsCalled
    /\ leave_shop
    /\ boss_blind' \in CardBosses
    /\ UNCHANGED played_cards

\* toggle_select(idx) on the position after the picked ones or on the last
\* picked one
Cards_toggle_select ==
    \E idx \in 0..MaxSelectIdx :
        /\ calls < MaxCardCalls
        /\ idx \in {Len(selected_indices), Len(selected_indices) - 1}
        /\ selected_indices' = toggle_select(idx)
        /\ UNCHANGED <<ante, blind_type, ante_phase, money, hands_remaining,
                       discards_remaining, deck, hand, jokers, consumables, hand_levels,
                       round_score, score_target, boss_blind, blinds_beaten,
                       blind_outcomes, shop, played_cards, calls, rng, seen, screenVars>>

Cards_play_selected ==
    /\ CardsCalled
    /\ LET play == play_selected
       IN  /\ hand' = play.hand
           /\ played_cards' = play.played
    /\ selected_indices' = <<>>
    /\ UNCHANGED <<ante, blind_type, ante_phase, money, hands_remaining,
                   discards_remaining, deck, jokers, consumables, hand_levels, round_score,
                   score_target, boss_blind, blinds_beaten, blind_outcomes, shop>>

Cards_discard_selected ==
    /\ CardsCalled
    /\ LET after == discard_selected
       IN  /\ deck' = after.deck
           /\ hand' = after.hand
    /\ selected_indices' = <<>>
    /\ UNCHANGED <<ante, blind_type, ante_phase, money, hands_remaining,
                   discards_remaining, jokers, consumables, hand_levels, round_score,
                   score_target, boss_blind, blinds_beaten, blind_outcomes, shop,
                   played_cards>>

Cards_draw_to_hand_size ==
    /\ CardsCalled
    /\ LET drawn == draw_to_hand_size(deck, hand, blind_type)
       IN  /\ deck' = drawn.deck
           /\ hand' = drawn.hand
    /\ UNCHANGED <<ante, blind_type, ante_phase, money, hands_remaining,
                   discards_remaining, selected_indices, jokers, consumables, hand_levels,
                   round_score, score_target, boss_blind, blinds_beaten,
                   blind_outcomes, shop, played_cards>>

Cards_apply_hook_effect ==
    /\ CardsCalled
    /\ \E hooked \in apply_hook_effect(deck, hand, blind_type) :
           /\ deck' = hooked.deck
           /\ hand' = hooked.hand
    /\ UNCHANGED <<ante, blind_type, ante_phase, money, hands_remaining,
                   discards_remaining, selected_indices, jokers, consumables, hand_levels,
                   round_score, score_target, boss_blind, blinds_beaten,
                   blind_outcomes, shop, played_cards>>

\* self.deck.reshuffle_discard(rng)
Cards_reshuffle_discard ==
    /\ CardsCalled
    /\ deck' \in reshuffle_discard(deck)
    /\ UNCHANGED <<ante, blind_type, ante_phase, money, hands_remaining,
                   discards_remaining, hand, selected_indices, jokers, consumables,
                   hand_levels, round_score, score_target, boss_blind, blinds_beaten,
                   blind_outcomes, shop, played_cards>>

CardsNext ==
    \/ Cards_start_blind
    \/ Cards_skip_blind
    \/ Cards_beat_blind
    \/ Cards_leave_shop
    \/ Cards_toggle_select
    \/ Cards_play_selected
    \/ Cards_discard_selected
    \/ Cards_draw_to_hand_size
    \/ Cards_apply_hook_effect
    \/ Cards_reshuffle_discard

SpecCards == CardsInit /\ [][CardsNext]_vars

\* ------------------------------------------------------------------------
\* app.rs: a run followed from the Boss blind of ante 1, with discards, to
\* the hand dealt for the Small blind of ante 2
\* ------------------------------------------------------------------------

\* The run after ScreenAction::NewGame and two times ScreenAction::SkipBlind
DebuffInit ==
    /\ ante = 1
    /\ boss_blind \in CardBosses
    /\ blind_type = Boss(boss_blind)
    /\ ante_phase = "BlindSelect"
    /\ money = 4
    /\ hands_remaining = 4
    /\ discards_remaining = 3
    /\ deck = CHOOSE shuffled \in shuffle(Deck_standard) : TRUE
    /\ hand = <<>>
    /\ selected_indices = <<>>
    /\ jokers = <<>>
    /\ consumables = <<>>
    /\ hand_levels = HandLevels_new
    /\ round_score = 0
    /\ score_target = score_target_of(1, blind_type)
    /\ blinds_beaten = 0
    /\ blind_outcomes = <<"Skipped", "Skipped", "Active">>
    /\ shop = {}
    /\ phase = "BlindSelect"
    /\ scoring_phase = "NotScoring"
    /\ scoring_result = {}
    /\ blind_just_beaten = FALSE
    /\ played_cards = <<>>
    /\ toggles = 0
    /\ calls = 0
    /\ rng = seed_from_u64(0)
    /\ seen = NothingSeen
    /\ pool = {}
    /\ hand_result = detect_hand(<<>>)
    /\ score_result = calculate_score(<<>>, hand_levels)
    /\ joker_effects = <<>>

\* The input of the play screen, taken until the last ante followed
Debuff_play_round ==
    /\ ante < MaxAnte
    /\ \/ PickCard
       \/ PlayFive
       \/ FinishScoring
       \/ Discard
       \/ BeatBlind

DebuffNext ==
    \/ StartBlind
    \/ Debuff_play_round
    \/ LeaveShop

SpecDebuff == DebuffInit /\ [][DebuffNext]_vars

\* ------------------------------------------------------------------------
\* scoring.rs: HandLevels::level_up called on the hand levels of a run, any
\* number of times
\* ------------------------------------------------------------------------

\* The hand types level_up is called with
LevelHands == {"Pair", "Flush"}

\* run.hand_levels.level_up(poker_hand)
LevelUp(poker_hand) ==
    /\ hand_levels' = level_up(hand_levels, poker_hand)
    /\ UNCHANGED <<pool, played_cards, hand_result, score_result, jokerVars,
                   tableVars, runVars>>

LevelsNext == \E poker_hand \in LevelHands : LevelUp(poker_hand)

SpecLevels == ShopInit /\ [][LevelsNext]_vars

\* ------------------------------------------------------------------------
\* Properties of the scoring pipeline (checked under SpecScore)
\* ------------------------------------------------------------------------

\* The slice with the cards at positions i and i + 1 (1-based) exchanged.
Swapped(cards, i) ==
    [k \in 1..Len(cards) |->
        IF k = i THEN cards[i + 1] ELSE IF k = i + 1 THEN cards[i] ELSE cards[k]]

\* The sum of f[x] over the finite set S.
RECURSIVE SumOver(_, _)
SumOver(S, f) ==
    IF S = {} THEN 0
    ELSE LET x == CHOOSE y \in S : TRUE
         IN  f[x] + SumOver(S \ {x}, f)

\* What a reader of the step log does with one step: chips are added, flat
\* mult is added, x-mult multiplies.
ReplayStep(totals, step) ==
    CASE step.kind \in {"CardChips", "JokerChips"} ->
             [totals EXCEPT !.chips = @ + step.chips]
      [] step.kind \in {"CardMult", "JokerMult"} ->
             [totals EXCEPT !.mult = F64AddInt(@, step.mult)]
      [] step.kind \in {"CardXMult", "JokerXMult"} ->
             [totals EXCEPT !.mult = F64Mul(@, step.x_mult)]
      [] OTHER -> totals

RECURSIVE ReplayFrom(_, _)
ReplayFrom(totals, steps) ==
    IF steps = <<>> THEN totals
    ELSE ReplayFrom(ReplayStep(totals, Head(steps)), Tail(steps))

\* The step log replayed in order, starting from the BaseHand step.
Replay(steps) ==
    ReplayFrom([chips |-> steps[1].chips, mult |-> F64FromInt(steps[1].mult)],
               Tail(steps))

\* C1: replaying the returned steps in order, from the BaseHand chips and
\* mult, adding chips, adding flat mult and multiplying by every x-mult,
\* gives total_chips exactly and a mult whose ceiling is total_mult.
C1_ReplayReproducesTotals ==
    LET replayed == Replay(score_result.steps)
    IN  /\ score_result.steps[1].kind = "BaseHand"
        /\ replayed.chips = score_result.total_chips
        /\ F64Ceil(replayed.mult) = score_result.total_mult

\* C1 witness: a scored hand whose log holds card chips, flat mult and
\* x-mult steps and whose running mult is not a whole number.
C1_Witness ==
    /\ \A kind \in {"CardChips", "CardMult", "CardXMult"} :
           \E i \in 1..Len(score_result.steps) : score_result.steps[i].kind = kind
    /\ Replay(score_result.steps).mult.den > 1
    /\ C1_ReplayReproducesTotals

\* The place of a per-card step within its card: chips, mult, x-mult.
StepRank(step) ==
    CASE step.kind = "CardChips" -> 1
      [] step.kind = "CardMult" -> 2
      [] step.kind = "CardXMult" -> 3
      [] OTHER -> 0

\* C2: steps[0] is the only BaseHand step, and the per-card steps of the
\* scoring cards appear in ascending card_index order, per card chips, then
\* mult, then x-mult.
C2_StepsInAscendingCardOrder ==
    LET steps == score_result.steps
        scoring == Range(score_result.scoring_indices)
        card_steps == {i \in 2..Len(steps) :
                          /\ StepRank(steps[i]) > 0
                          /\ steps[i].card_index \in scoring}
    IN  /\ steps[1].kind = "BaseHand"
        /\ \A i \in 2..Len(steps) : steps[i].kind # "BaseHand"
        /\ \A i, j \in card_steps :
               i < j =>
                   \/ steps[i].card_index < steps[j].card_index
                   \/ /\ steps[i].card_index = steps[j].card_index
                      /\ StepRank(steps[i]) < StepRank(steps[j])

\* The totals of the played cards scored with positions i and i + 1
\* exchanged.
ScoreSwapped(i) == calculate_score(Swapped(played_cards, i), hand_levels)

\* C3 as claimed: scoring the same cards in another order gives the same
\* total_chips, total_mult and final_score.
C3_OrderIndependent ==
    \A i \in 1..(Len(played_cards) - 1) :
        LET swapped == ScoreSwapped(i)
        IN  /\ swapped.total_chips = score_result.total_chips
            /\ swapped.total_mult = score_result.total_mult
            /\ swapped.final_score = score_result.final_score

\* The scoring cards carry both a flat mult bonus and an x-mult.
MixesFlatAndXMult ==
    LET scoring == {played_cards[idx + 1] : idx \in Range(score_result.scoring_indices)}
    IN  /\ \E card \in scoring : mult_bonus(card) > 0
        /\ \E card \in scoring : x_mult(card) # F64FromInt(1)

\* C3 amended: total_chips never depends on the order of the played cards;
\* total_mult and final_score do not depend on it unless the scoring cards
\* carry both a flat mult bonus and an x-mult.
C3_ChipsOrderIndependent ==
    \A i \in 1..(Len(played_cards) - 1) :
        LET swapped == ScoreSwapped(i)
        IN  /\ swapped.total_chips = score_result.total_chips
            /\ ~MixesFlatAndXMult =>
                   /\ swapped.total_mult = score_result.total_mult
                   /\ swapped.final_score = score_result.final_score

\* C3 witness: two scoring cards with different flat mult and chips, no
\* x-mult among the scoring cards, scored in either order.
C3_Witness ==
    /\ Len(score_result.scoring_indices) >= 2
    /\ ~MixesFlatAndXMult
    /\ \E i, j \in Range(score_result.scoring_indices) :
           /\ mult_bonus(played_cards[i + 1]) > mult_bonus(played_cards[j + 1])
           /\ chip_value(played_cards[i + 1]) # chip_value(played_cards[j + 1])
    /\ ScoreSwapped(1).final_score = score_result.final_score

\* A card without enhancement, edition or debuff.
IsPlain(card) ==
    card.enhancement = "None" /\ card.edition = "Base" /\ ~card.debuffed

AllPlain == \A i \in 1..Len(played_cards) : IsPlain(played_cards[i])

PlayedRanks == [i \in 1..Len(played_cards) |-> played_cards[i].rank]

\* C4: for plain cards total_chips = level-1 base chips + (level - 1) * the
\* per-level chips + the rank chips of the scoring cards only, total_mult =
\* level-1 base mult + (level - 1) * the per-level mult, and final_score =
\* total_chips * total_mult; K,K,5 at level 1 gives 30 x 2 = 60 and two
\* kings with Pair at level 2 give 45 x 3 = 135.
C4_PlainScore ==
    AllPlain =>
        LET detected == score_result.hand_type
            level == hand_levels[detected]
            scoring == Range(score_result.scoring_indices)
            rank_chips == [idx \in scoring |-> rank_chip_value(played_cards[idx + 1].rank)]
        IN  /\ score_result.total_chips =
                   base_chips(detected) + (level - 1) * level_up_chips(detected)
                       + SumOver(scoring, rank_chips)
            /\ score_result.total_mult =
                   base_mult(detected) + (level - 1) * level_up_mult(detected)
            /\ score_result.final_score =
                   score_result.total_chips * score_result.total_mult
            /\ PlayedRanks = <<King, King, 5>> /\ hand_levels["Pair"] = 1 =>
                   /\ score_result.total_chips = 30
                   /\ score_result.total_mult = 2
                   /\ score_result.final_score = 60
            /\ PlayedRanks = <<King, King>> /\ hand_levels["Pair"] = 2 =>
                   /\ score_result.total_chips = 45
                   /\ score_result.total_mult = 3
                   /\ score_result.final_score = 135

\* C4 witness: two plain kings and a five scored with Pair at level 2; the
\* five is a kicker.
C4_Witness ==
    /\ AllPlain
    /\ PlayedRanks = <<King, King, 5>>
    /\ hand_levels["Pair"] = 2
    /\ score_result.final_score = 135

\* The steps of the log that name the card at idx.
StepsOfCard(idx) ==
    {i \in 2..Len(score_result.steps) :
        /\ StepRank(score_result.steps[i]) > 0
        /\ score_result.steps[i].card_index = idx}

StoneIndices ==
    {i - 1 : i \in {j \in 1..Len(played_cards) : played_cards[j].enhancement = "Stone"}}

\* C5: a Stone card outside scoring_indices gives exactly one CardChips step
\* of 50 plus its edition bonus and nothing for mult; a Stone card inside
\* scoring_indices is counted once; a debuffed Stone card gives no step.
C5_StoneScoresOnce ==
    /\ \A idx \in StoneIndices :
           LET card == played_cards[idx + 1]
               steps == score_result.steps
               chip_steps == {i \in StepsOfCard(idx) : steps[i].kind = "CardChips"}
           IN  /\ card.debuffed => StepsOfCard(idx) = {}
               /\ ~card.debuffed =>
                      /\ Cardinality(chip_steps) = 1
                      /\ \A i \in chip_steps :
                             steps[i].chips = 50 + (IF card.edition = "Foil" THEN 50 ELSE 0)
               /\ idx \notin Range(score_result.scoring_indices) =>
                      StepsOfCard(idx) = chip_steps
    /\ LET counted == Range(score_result.scoring_indices) \cup StoneIndices
           chips == [idx \in counted |-> chip_value(played_cards[idx + 1])]
       IN  score_result.total_chips =
               chips_for(hand_levels, score_result.hand_type) + SumOver(counted, chips)

\* C5 witness: one hand holding a Stone card that scores with the hand, a
\* Stone card outside the hand and a debuffed Stone card.
C5_Witness ==
    /\ \E idx \in StoneIndices :
           /\ idx \in Range(score_result.scoring_indices)
           /\ ~played_cards[idx + 1].debuffed
    /\ \E idx \in StoneIndices :
           /\ idx \notin Range(score_result.scoring_indices)
           /\ ~played_cards[idx + 1].debuffed
    /\ \E idx \in StoneIndices : played_cards[idx + 1].debuffed
    /\ Len(score_result.scoring_indices) >= 2

\* ------------------------------------------------------------------------
\* Properties of hand detection (checked under SpecScore)
\* ------------------------------------------------------------------------

\* Standard poker ranking, stated on the multiset of ranks and the suits.
RankCount(cards, rank) == Cardinality({i \in 1..Len(cards) : cards[i].rank = rank})

RanksOf(cards) == {cards[i].rank : i \in 1..Len(cards)}

\* The ranks held exactly k times.
RanksHeld(cards, k) == {rank \in RanksOf(cards) : RankCount(cards, rank) = k}

PokerFlush(cards) ==
    Len(cards) = 5 /\ Cardinality({cards[i].suit : i \in 1..Len(cards)}) = 1

\* Five ranks in a row, the ace high (above the king) or low (below the two).
PokerStraight(cards) ==
    /\ Len(cards) = 5
    /\ \/ \E low \in 2..Ten : RanksOf(cards) = low..(low + 4)
       \/ RanksOf(cards) = {Ace} \cup 2..5

PokerCategory(cards) ==
    CASE PokerStraight(cards) /\ PokerFlush(cards) /\ RanksOf(cards) = Ten..Ace ->
             "RoyalFlush"
      [] PokerStraight(cards) /\ PokerFlush(cards) /\ RanksOf(cards) # Ten..Ace ->
             "StraightFlush"
      [] RanksHeld(cards, 4) # {} -> "FourOfAKind"
      [] RanksHeld(cards, 3) # {} /\ RanksHeld(cards, 2) # {} -> "FullHouse"
      [] PokerFlush(cards) /\ ~PokerStraight(cards) /\ RanksHeld(cards, 3) = {}
             /\ RanksHeld(cards, 2) = {} -> "Flush"
      [] PokerStraight(cards) /\ ~PokerFlush(cards) -> "Straight"
      [] RanksHeld(cards, 3) # {} /\ RanksHeld(cards, 2) = {} -> "ThreeOfAKind"
      [] Cardinality(RanksHeld(cards, 2)) = 2 -> "TwoPair"
      [] Cardinality(RanksHeld(cards, 2)) = 1 /\ RanksHeld(cards, 3) = {}
             /\ ~PokerFlush(cards) -> "Pair"
      [] OTHER -> "HighCard"

\* C6: for at most five standard cards detect_hand returns the highest
\* category of standard poker ranking; below five cards that is one of
\* HighCard, Pair, TwoPair, ThreeOfAKind, FourOfAKind.
C6_StandardRanking ==
    AllPlain /\ Len(played_cards) <= 5 =>
        /\ hand_result.hand_type = PokerCategory(played_cards)
        /\ Len(played_cards) < 5 =>
               hand_result.hand_type \in
                   {"HighCard", "Pair", "TwoPair", "ThreeOfAKind", "FourOfAKind"}

\* C6 witness: Q-K-A-2-3 in mixed suits, which is no straight.
C6_Witness ==
    /\ AllPlain
    /\ Len(played_cards) = 5
    /\ RanksOf(played_cards) = {Queen, King, Ace, 2, 3}
    /\ hand_result.hand_type = "HighCard"

FlushOrStraightHands ==
    {"Flush", "Straight", "StraightFlush", "RoyalFlush", "FlushHouse", "FlushFive"}

\* C7: a flush- or straight-based category is returned only when exactly
\* five cards are played.
C7_FlushNeedsExactlyFive ==
    hand_result.hand_type \in FlushOrStraightHands => Len(played_cards) = 5

\* C8: scoring_indices are distinct and in range, and are the indices of the
\* matched rank groups (2 for Pair, 2 + 2 for TwoPair, 3 for ThreeOfAKind, 4
\* for FourOfAKind, 3 + 2 for FullHouse), every played index for the
\* whole-hand categories, the one index of a highest card for HighCard, and
\* none for an empty slice.
C8_ScoringIndices ==
    LET indices == hand_result.scoring_indices
        n == Len(played_cards)
        detected == hand_result.hand_type
        rank_at(idx) == played_cards[idx + 1].rank
        \* the ranks of the scoring cards, and how many scoring cards of each
        ranks == {rank_at(idx) : idx \in Range(indices)}
        held(rank) == Cardinality({idx \in Range(indices) : rank_at(idx) = rank})
        groups(sizes) ==
            /\ Len(indices) = SumOver(DOMAIN sizes, sizes)
            /\ \E group \in [DOMAIN sizes -> ranks] :
                   /\ \A i, j \in DOMAIN sizes : i # j => group[i] # group[j]
                   /\ \A i \in DOMAIN sizes : held(group[i]) = sizes[i]
    IN  /\ Cardinality(Range(indices)) = Len(indices)
        /\ Range(indices) \subseteq 0..(n - 1)
        /\ n = 0 => indices = <<>>
        /\ detected = "Pair" => groups(<<2>>)
        /\ detected = "TwoPair" => groups(<<2, 2>>)
        /\ detected = "ThreeOfAKind" => groups(<<3>>)
        /\ detected = "FourOfAKind" => groups(<<4>>)
        /\ detected = "FullHouse" => groups(<<3, 2>>)
        /\ detected \in FlushOrStraightHands \cup {"FiveOfAKind"} =>
               Range(indices) = 0..(n - 1)
        /\ detected = "HighCard" /\ n > 0 =>
               /\ Len(indices) = 1
               /\ \A i \in 1..n : played_cards[i].rank <= rank_at(indices[1])

\* ------------------------------------------------------------------------
\* Properties of the joker slots (checked under SpecJoker)
\* ------------------------------------------------------------------------

\* C9: a Blueprint resolves to the effect the joker in the next slot
\* produces for its own type; it resolves to None in the last slot and when
\* the next joker is itself a Blueprint.
C9_BlueprintCopiesNext ==
    \A idx \in 1..Len(jokers) :
        jokers[idx].joker_type = "Blueprint" =>
            joker_effects[idx] =
                IF idx = Len(jokers) THEN JokerEffect_None
                ELSE IF jokers[idx + 1].joker_type = "Blueprint" THEN JokerEffect_None
                ELSE joker_effects[idx + 1]

\* Two Blueprints in front of a joker with an effect: the second copies it,
\* the first resolves to None.
C9_Witness ==
    /\ Len(jokers) = 3
    /\ jokers[1].joker_type = "Blueprint"
    /\ jokers[2].joker_type = "Blueprint"
    /\ jokers[3].joker_type = "SteelJoker"
    /\ joker_effects[3].effect = "XMult"
    /\ joker_effects[2] = joker_effects[3]
    /\ joker_effects[1] = JokerEffect_None

\* ------------------------------------------------------------------------
\* Properties of the run (checked under Spec)
\* ------------------------------------------------------------------------

\* The blind that follows the current one in the cycle, with the ante it is
\* played in.
C10_Advance ==
    CASE blind_type.blind = "Small" ->
            /\ blind_type' = Big
            /\ ante' = ante
            /\ boss_blind' = boss_blind
      [] blind_type.blind = "Big" ->
            /\ blind_type' = Boss(boss_blind)
            /\ ante' = ante
            /\ boss_blind' = boss_blind
      [] blind_type.blind = "Boss" ->
            /\ blind_type = Boss(boss_blind)
            /\ blind_type' = Small
            /\ ante' = ante + 1
            /\ boss_blind' \in BossBlinds

\* C10: blind identity only advances along Small -> Big -> Boss(boss_blind)
\* -> Small with ante + 1 and a newly drawn boss; only skip_blind and
\* leave_shop advance it, they leave ante_phase = BlindSelect, and the ante
\* changes by +1 on the Boss -> Small step and never otherwise.
C10_BlindCycle ==
    [][/\ (blind_type' # blind_type \/ ante' # ante \/ boss_blind' # boss_blind) =>
              /\ SkipBlind \/ LeaveShop
              /\ C10_Advance
       /\ (SkipBlind \/ LeaveShop) =>
              /\ C10_Advance
              /\ ante_phase' = "BlindSelect"]_vars

\* The Small blind of the second ante on the blind-select screen, reached
\* by leaving the shop after the first Boss blind was beaten with three
\* hands left: the money is the starting 4 plus the Boss reward 5 plus 3.
C10_Witness ==
    /\ ante = 2
    /\ blind_type = Small
    /\ ante_phase = "BlindSelect"
    /\ blind_outcomes = <<"Active", "Upcoming", "Upcoming">>
    /\ money = 4 + reward(Boss(BossBlind_ALL[1])) + 3

\* ------------------------------------------------------------------------
\* Properties of the methods of RunState (checked under SpecApi)
\* ------------------------------------------------------------------------

\* The suit a blind debuffs: clubs under The Club, spades under The Goad,
\* diamonds under The Window, hearts under The Head.
C11_DebuffedSuits(blind) ==
    IF blind = Boss("TheClub") THEN {"Clubs"}
    ELSE IF blind = Boss("TheGoad") THEN {"Spades"}
    ELSE IF blind = Boss("TheWindow") THEN {"Diamonds"}
    ELSE IF blind = Boss("TheHead") THEN {"Hearts"}
    ELSE {}

\* C11: whatever the state start_blind is called in, afterwards the phase
\* is Playing, the round score is 0, 3 discards and 4 hands are left (1 hand
\* under Boss(TheNeedle)), nothing is selected, the score target is the one
\* of the current ante and blind, and every hand card of the suit the boss
\* debuffs is debuffed.
C11_StartBlindResets ==
    [][Call_start_blind =>
          /\ ante_phase' = "Playing"
          /\ round_score' = 0
          /\ discards_remaining' = 3
          /\ hands_remaining' = IF blind_type' = Boss("TheNeedle") THEN 1 ELSE 4
          /\ selected_indices' = <<>>
          /\ score_target' = score_target_of(ante', blind_type')
          /\ \A i \in 1..Len(hand') :
                 hand'[i].suit \in C11_DebuffedSuits(blind_type') => hand'[i].debuffed]_vars

\* start_blind was called under Boss(TheClub) and dealt clubs, all of them
\* debuffed, next to cards of other suits.
C11_Witness ==
    /\ blind_type = Boss("TheClub")
    /\ ante_phase = "Playing"
    /\ Len(hand) = hand_size
    /\ hands_remaining = 4
    /\ discards_remaining = 3
    /\ \E i, j \in 1..Len(hand) :
           /\ hand[i].suit = "Clubs" /\ hand[i].debuffed
           /\ hand[j].suit # "Clubs" /\ ~hand[j].debuffed

\* The reward of the claim: blind base reward, $1 per hand left, $1 per $5
\* held up to $5, $4 per Golden Joker.
C13_Reward ==
    LET base == IF blind_type = Small THEN 3 ELSE IF blind_type = Big THEN 4 ELSE 5
        fifths == money \div 5
        golden == Cardinality({i \in 1..Len(jokers) : jokers[i].joker_type = "GoldenJoker"})
    IN  base + hands_remaining + (IF fifths < 5 THEN fifths ELSE 5) + 4 * golden

\* C13: beat_blind credits exactly the blind's base reward (Small 3, Big 4,
\* Boss 5) + hands_remaining + min(money div 5, 5) + 4 per Golden Joker
\* owned, the interest taken on the money held before the credit, and
\* calculate_reward called just before returns that total.
C13_RewardCredited ==
    [][Call_beat_blind =>
          /\ calculate_reward = C13_Reward
          /\ money' = money + C13_Reward]_vars

\* beat_blind was called four times in a row from a new run: $4 grew to $11,
\* $20 and $31, and the fourth reward held the capped interest of $5.
C13_Witness ==
    /\ blinds_beaten = 4
    /\ ante_phase = "Shop"
    /\ hands_remaining = 4
    /\ money = 31 + 3 + 4 + 5

\* C14: after beat_blind the phase is Shop, a shop with 2 items and reroll
\* cost 5 is present, the hand is empty and its former cards are appended to
\* the discard pile with debuffed = false, nothing is selected, and ante and
\* blind_type are the ones before the call.
C14_BeatBlindOpensShop ==
    [][Call_beat_blind =>
          /\ ante_phase' = "Shop"
          /\ shop' # {}
          /\ \A s \in shop' : Len(s.items) = 2 /\ s.reroll_cost = 5
          /\ hand' = <<>>
          /\ deck'.cards = deck.cards
          /\ Len(deck'.discard) = Len(deck.discard) + Len(hand)
          /\ \A i \in 1..Len(deck.discard) : deck'.discard[i] = deck.discard[i]
          /\ \A i \in 1..Len(hand) :
                 /\ ~deck'.discard[Len(deck.discard) + i].debuffed
                 /\ [deck'.discard[Len(deck.discard) + i] EXCEPT !.debuffed = hand[i].debuffed]
                        = hand[i]
          /\ selected_indices' = <<>>
          /\ ante' = ante
          /\ blind_type' = blind_type]_vars

\* beat_blind was called on a hand dealt under Boss(TheClub): its eight
\* cards, clubs among them, lie in the discard pile and none is debuffed.
C14_Witness ==
    /\ blind_type = Boss("TheClub")
    /\ ante_phase = "Shop"
    /\ shop # {}
    /\ hand = <<>>
    /\ Len(deck.cards) = 44
    /\ Len(deck.discard) = 8
    /\ \E i \in 1..8 : deck.discard[i].suit = "Clubs"
    /\ \A i \in 1..8 : ~deck.discard[i].debuffed

\* C15: in every state RunState reaches under any sequence of its public
\* methods the shop is present only in the Shop phase.
C15_ShopOnlyInShopPhase == shop # {} => ante_phase = "Shop"

\* C16: can_play is true exactly when hands remain and between 1 and 5 cards
\* are selected, exactly 5 under Boss(ThePsychic); can_discard is true exactly
\* when discards remain and the selection is not empty.
C16_CanPlayCanDiscard ==
    /\ can_play <=>
           /\ hands_remaining > 0
           /\ IF blind_type = Boss("ThePsychic")
              THEN Len(selected_indices) = 5
              ELSE Len(selected_indices) \in 1..5
    /\ can_discard <=>
           /\ discards_remaining > 0
           /\ Len(selected_indices) > 0

\* The Psychic is the blind being played, five cards are selected and the
\* hand may be played.
C16_Witness ==
    /\ blind_type = Boss("ThePsychic")
    /\ ante_phase = "Playing"
    /\ Len(hand) = hand_size
    /\ Len(selected_indices) = 5
    /\ can_play
    /\ can_discard

\* The hand positions (from 1) of the cards that are not selected
C17_RestPositions ==
    SelectSeq([i \in 1..Len(hand) |-> i],
              LAMBDA i : (i - 1) \notin Range(selected_indices))

\* The hand positions (from 1) of the selected cards, in hand order
C17_SelectedPositions ==
    SelectSeq([i \in 1..Len(hand) |-> i],
              LAMBDA i : (i - 1) \in Range(selected_indices))

\* The cards with the debuffed flag left out of the comparison
C17_Faces(cards) == [i \in 1..Len(cards) |-> [cards[i] EXCEPT !.debuffed = FALSE]]

\* The hand holds the unselected cards in their order, the selection is empty
C17_SelectedRemoved ==
    /\ Len(hand') >= Len(C17_RestPositions)
    /\ \A k \in 1..Len(C17_RestPositions) :
           C17_Faces(hand')[k] = C17_Faces(hand)[C17_RestPositions[k]]
    /\ selected_indices' = <<>>

\* The hand is filled from the end of the draw pile up to hand_size, as far
\* as the pile goes, after a hand of `kept` cards; the cards drawn that are
\* of the suit the boss debuffs are debuffed.
C17_Refilled(kept) ==
    LET need == IF hand_size > kept THEN hand_size - kept ELSE 0
        have == Len(deck.cards)
        k == IF need < have THEN need ELSE have
    IN  /\ Len(hand') = kept + k
        /\ deck'.cards = SubSeq(deck.cards, 1, have - k)
        /\ \A i \in 1..k :
               /\ C17_Faces(hand')[kept + i] = C17_Faces(deck.cards)[have - i + 1]
               /\ hand'[kept + i].suit \in C11_DebuffedSuits(blind_type)
                      => hand'[kept + i].debuffed

\* C17 as stated: play_selected and discard_selected each remove the selected
\* cards, keep the others in order, clear the selection and refill the hand
\* to hand_size from the draw pile, debuffing the drawn cards of the boss's
\* suit.
C17_BothRefill ==
    [][(Call_play_selected \/ Call_discard_selected) =>
          /\ C17_SelectedRemoved
          /\ C17_Refilled(Len(C17_RestPositions))]_vars

\* C17 amended: discard_selected removes the selected cards, keeps the others
\* in order, clears the selection and refills the hand; play_selected removes
\* the selected cards, keeps the others in order, clears the selection and
\* returns the removed cards in hand order without drawing; the refill after
\* a play is draw_to_hand_size.
C17_DiscardRefillsPlayDoesNot ==
    [][/\ Call_discard_selected =>
             /\ C17_SelectedRemoved
             /\ C17_Refilled(Len(C17_RestPositions))
             /\ Len(deck'.discard) = Len(deck.discard) + Len(C17_SelectedPositions)
       /\ Call_play_selected =>
             /\ C17_SelectedRemoved
             /\ Len(hand') = Len(C17_RestPositions)
             /\ deck' = deck
             /\ played_cards' = [k \in 1..Len(C17_SelectedPositions) |->
                                    hand[C17_SelectedPositions[k]]]
       /\ Call_draw_to_hand_size =>
             /\ SubSeq(C17_Faces(hand'), 1, Len(hand)) = C17_Faces(hand)
             /\ C17_Refilled(Len(hand))]_vars

\* play_selected has returned cards and left the hand short of hand_size
\* while the draw pile holds cards.
C17_Witness ==
    /\ ante_phase = "Playing"
    /\ played_cards # <<>>
    /\ Len(hand) = hand_size - Len(played_cards)
    /\ Len(deck.cards) = 44
    /\ selected_indices = <<>>

\* C20: round_score never decreases between one start_blind and the next:
\* start_blind sets it to 0, add_score adds an amount of 0 or more to it,
\* and every other method leaves it as it is.
C20_RoundScoreMonotone ==
    [][IF Call_start_blind THEN round_score' = 0
       ELSE IF Call_add_score THEN round_score' >= round_score
       ELSE round_score' = round_score]_vars

\* Two scores have been added in the blind being played and a call has
\* been made after them.
C20_Witness ==
    /\ ante_phase = "Playing"
    /\ Len(hand) = hand_size
    /\ round_score = 600
    /\ calls = MaxCalls

\* C23: play_selected called while can_play is false (no hands left
\* included) and discard_selected called with no discards left remove no
\* card and leave the hand, the deck piles and the counters unchanged.
C23_IllegalPlayDiscardNoOp ==
    [][/\ (Call_play_selected /\ ~can_play) =>
              UNCHANGED <<hand, deck, hands_remaining, discards_remaining>>
       /\ (Call_discard_selected /\ discards_remaining = 0) =>
              UNCHANGED <<hand, deck, hands_remaining, discards_remaining>>]_vars

\* The fields of RunState that the calls may write
C24_RunState ==
    <<ante, blind_type, ante_phase, money, hands_remaining, discards_remaining,
      deck, hand, selected_indices, jokers, consumables, hand_levels, round_score,
      score_target, boss_blind, blinds_beaten, blind_outcomes, shop>>

\* C24: a call with an index past the end changes nothing: toggle_select
\* past the hand, sell_joker past the jokers, buy_shop_item past the shop
\* items or with no shop, use_planet and use_tarot past the consumables; the
\* calls that return a boolean return false.
C24_OutOfRangeNoOp ==
    /\ [](\A idx \in 0..(hand_size + 1) :
             idx >= Len(hand) => toggle_select(idx) = selected_indices)
    /\ [][/\ \A index \in 0..MaxSlotIdx :
               (sell_joker(index) /\ index >= Len(jokers)) =>
                   UNCHANGED C24_RunState /\ ~sell_joker_returns(index)
          /\ \A index \in 0..MaxShopIdx :
               (/\ buy_shop_item(index)
                /\ \A s \in shop : index >= Len(s.items)) =>
                   UNCHANGED C24_RunState /\ ~buy_shop_item_returns(index)
          /\ \A index \in 0..MaxSlotIdx :
               (use_planet(index) /\ index >= Len(consumables)) =>
                   UNCHANGED C24_RunState /\ ~use_planet_returns(index)
          /\ \A index \in 0..MaxSlotIdx :
               (use_tarot(index) /\ index >= Len(consumables)) =>
                   UNCHANGED C24_RunState /\ ~use_tarot_returns(index)]_vars

\* Four calls have been made on a new run and have left it as it was: it
\* has no hand, no joker, no consumable and no shop, so that every index is
\* past the end.
C24_Witness ==
    /\ calls = MaxCalls
    /\ hand = <<>>
    /\ jokers = <<>>
    /\ consumables = <<>>
    /\ shop = {}
    /\ selected_indices = <<>>
    /\ money = 4
    /\ ante_phase = "BlindSelect"
    /\ blind_type = Small
    /\ hands_remaining = 4
    /\ discards_remaining = 3
    /\ Len(deck.cards) = 52

\* The base chips of the antes and ten times the multipliers of the blinds
C33_Base == <<300, 800, 2000, 5000, 11000, 20000, 35000, 50000>>

C33_Tenths(blind) ==
    CASE blind.blind = "Small" -> 10
      [] blind.blind = "Big" -> 15
      [] blind.blind = "Boss" /\ blind.boss = "TheWall" -> 40
      [] OTHER -> 20

\* For every ante from 1 to 8 the target function gives the product, and
\* the targets of Small, Big and Boss go up
C33_Table ==
    \A a \in 1..8 :
        /\ \A blind \in {Small, Big} \cup {Boss(boss) : boss \in BossBlinds} :
               score_target_of(a, blind) * 10 = C33_Base[a] * C33_Tenths(blind)
        /\ \A boss \in BossBlinds :
               /\ score_target_of(a, Small) < score_target_of(a, Big)
               /\ score_target_of(a, Big) < score_target_of(a, Boss(boss))

\* C33: score_target is the base chips of the ante (300, 800, 2000, 5000,
\* 11000, 20000, 35000, 50000) times the multiplier of the current blind
\* (1, 1.5, 2, 4 for The Wall) in every state, so within an ante the targets
\* go up from Small to Big to Boss.
C33_TargetOfAnteAndBlind ==
    /\ score_target * 10 = C33_Base[ante] * C33_Tenths(blind_type)
    /\ calls = 0 => C33_Table

C33_Witness ==
    /\ ante = 2
    /\ blind_type = Small
    /\ score_target = 800
    /\ blind_outcomes = <<"Active", "Upcoming", "Upcoming">>
    /\ calls = MaxCalls

\* ------------------------------------------------------------------------
\* Properties of the selection (checked under SpecSelect)
\* ------------------------------------------------------------------------

\* C18: selected_indices holds at most 5 entries and no index twice;
\* toggle_select of a selected index removes it, of an unselected index in
\* range adds it only while fewer than 5 are selected, and with 5 selected
\* the selection of another card changes nothing.
C18_SelectionBounded ==
    /\ Len(selected_indices) <= 5
    /\ \A i, j \in 1..Len(selected_indices) :
           selected_indices[i] = selected_indices[j] => i = j
    /\ \A idx \in 0..hand_size :
           LET after == toggle_select(idx)
           IN  IF idx \in Range(selected_indices)
               THEN /\ idx \notin Range(after)
                    /\ Range(after) = Range(selected_indices) \ {idx}
                    /\ Len(after) = Len(selected_indices) - 1
               ELSE IF idx < Len(hand) /\ Len(selected_indices) < 5
               THEN after = Append(selected_indices, idx)
               ELSE after = selected_indices

\* Five cards are selected, not the five leftmost and not in hand order,
\* and another card of the hand is not selected.
C18_Witness ==
    /\ Len(hand) = hand_size
    /\ selected_indices = <<7, 2, 5, 0, 3>>

\* ------------------------------------------------------------------------
\* Properties of the counters (checked under SpecCounters)
\* ------------------------------------------------------------------------

\* C19: hands_remaining stays within 0..4 and discards_remaining within
\* 0..3; use_hand takes exactly 1 off a positive counter and leaves 0 at 0;
\* use_discard takes exactly 1 off a positive counter and returns true, and
\* at 0 returns false and leaves 0.
C19_CountersBounded ==
    /\ [](hands_remaining \in 0..4 /\ discards_remaining \in 0..3)
    /\ [][Count_use_hand =>
              IF hands_remaining > 0
              THEN hands_remaining' = hands_remaining - 1
              ELSE hands_remaining' = 0]_vars
    /\ [][Count_use_discard =>
              IF discards_remaining > 0
              THEN /\ discards_remaining' = discards_remaining - 1
                   /\ use_discard_returns(discards_remaining)
              ELSE /\ discards_remaining' = 0
                   /\ ~use_discard_returns(discards_remaining)]_vars

\* Both counters are at 0 after eight calls, none of them start_blind or
\* skip_blind: seven calls take the counters to 0 and one was made at 0.
C19_Witness ==
    /\ hands_remaining = 0
    /\ discards_remaining = 0
    /\ ante = 1
    /\ blind_type = Small
    /\ ante_phase = "BlindSelect"
    /\ calls = MaxCounterCalls

\* The numbers of selected cards a tarot that works on cards is used with
C26_Required(tarot) ==
    CASE tarot \in {"TheLover", "TheChariot"} -> {1}
      [] tarot = "Death" -> {2}
      [] tarot \in {"TheMagician", "TheEmpress", "TheHierophant", "Strength"} -> {1, 2}
      [] OTHER -> Nat

\* C26: use_tarot on a tarot that works on cards returns false and leaves
\* the run unchanged when the number of selected cards is not 1 for TheLover
\* and TheChariot, not 2 for Death, not 1 or 2 for the other tarots that
\* work on cards.
C26_TarotNeedsSelection ==
    [][\A consumable_index \in 0..MaxSlotIdx :
          (/\ use_tarot(consumable_index)
           /\ consumable_index < Len(consumables)
           /\ consumables[consumable_index + 1].consumable_type.kind = "Tarot"
           /\ Len(selected_indices) \notin
                  C26_Required(consumables[consumable_index + 1].consumable_type.card)) =>
              /\ ~use_tarot_returns(consumable_index)
              /\ UNCHANGED C24_RunState]_vars

C26_Witness ==
    /\ calls = MaxCalls
    /\ consumables = <<Consumable_new(Tarot("Death"))>>
    /\ selected_indices = <<0>>
    /\ Len(hand) > 0
    /\ money = 8

\* ------------------------------------------------------------------------
\* Properties of the shop methods (checked under SpecShop)
\* ------------------------------------------------------------------------

\* C21: after any sequence of buy_shop_item, sell_joker, use_planet,
\* use_tarot and reroll_shop calls there are at most max_jokers jokers and
\* at most max_consumables consumables.
C21_SlotsBounded ==
    /\ Len(jokers) <= max_jokers
    /\ Len(consumables) <= max_consumables

\* All five joker slots are filled, the open shop offers a joker the money
\* would pay for, and a call has been made after the fifth purchase.
C21_Witness ==
    /\ Len(jokers) = max_jokers
    /\ calls = MaxShopCalls
    /\ \E s \in shop :
           \E i \in 1..Len(s.items) :
               /\ s.items[i].item = "JokerItem"
               /\ money >= item_price(s.items[i])

\* ------------------------------------------------------------------------
\* Properties of the hand levels (checked under SpecLevels)
\* ------------------------------------------------------------------------

\* C22: each level_up(h) raises the level of h by exactly 1, however many
\* calls came before, and leaves the level of every other hand type as it
\* was, so no level ever falls.
C22_LevelUpAddsOne ==
    [][\A h \in LevelHands :
          LevelUp(h) =>
              /\ get_level(hand_levels', h) = get_level(hand_levels, h) + 1
              /\ \A other \in PokerHands \ {h} :
                     get_level(hand_levels', other) = get_level(hand_levels, other)]_vars

\* buy_shop_item(index) is to be refused: the money is short of the price
\* of the item, or the item is a joker and the joker slots are full, or it
\* is a consumable and the consumable slots are full.
C25_Refused(item) ==
    \/ money < item_price(item)
    \/ item.item = "JokerItem" /\ Len(jokers) = max_jokers
    \/ item.item = "ConsumableItem" /\ Len(consumables) = max_consumables

\* C25: buy_shop_item(i) on an item of the open shop returns false and
\* changes nothing when it is to be refused; otherwise it returns true, the
\* money goes down by exactly the price and not below 0, the item leaves
\* the shop and becomes the last joker or the last consumable.
C25_BuyChecksMoneyAndSlots ==
    [][\A index \in 0..MaxShopIdx :
          \A open \in shop :
              (buy_shop_item(index) /\ index < Len(open.items)) =>
                  LET item == open.items[index + 1]
                  IN  IF C25_Refused(item)
                      THEN /\ ~buy_shop_item_returns(index)
                           /\ UNCHANGED C24_RunState
                      ELSE /\ buy_shop_item_returns(index)
                           /\ money' = money - item_price(item)
                           /\ money' >= 0
                           /\ shop' = {[open EXCEPT !.items = RemoveAt(@, index)]}
                           /\ IF item.item = "JokerItem"
                              THEN /\ jokers' = Append(jokers, item.joker)
                                   /\ consumables' = consumables
                              ELSE /\ consumables' = Append(consumables, item.consumable)
                                   /\ jokers' = jokers]_vars

\* Both items of a shop have been bought, a joker and then a tarot: the
\* shop is empty and the money is down by both prices.
C25_Witness ==
    /\ jokers = <<Joker_new("Joker")>>
    /\ consumables = <<Consumable_new(Tarot("TheHermit"))>>
    /\ \E s \in shop : s.items = <<>>
    /\ money = 4

\* ------------------------------------------------------------------------
\* Properties of rerolls (checked under SpecReroll)
\* ------------------------------------------------------------------------

\* C27: every reroll leaves reroll_cost exactly 1 higher than before it,
\* through Shop::reroll and through a reroll_shop that returns true (which
\* also takes the old cost off the money); reroll_shop returns false and
\* changes nothing when the money is short of reroll_cost or no shop is open.
C27_RerollRaisesCost ==
    [][/\ Reroll_Shop_reroll =>
              \A before \in shop : \A after \in shop' :
                  after.reroll_cost = before.reroll_cost + 1
       /\ Reroll_reroll_shop =>
              IF shop # {} /\ \A open \in shop : money >= open.reroll_cost
              THEN /\ reroll_shop_returns
                   /\ \A before \in shop : \A after \in shop' :
                          /\ after.reroll_cost = before.reroll_cost + 1
                          /\ money' = money - before.reroll_cost
              ELSE /\ ~reroll_shop_returns
                   /\ UNCHANGED C24_RunState]_vars

\* ------------------------------------------------------------------------
\* Properties of two runs of one seed (checked under SpecSeed)
\* ------------------------------------------------------------------------

C30_BossNotSkipped ==
    [][/\ (SkipBlind /\ blind_type.blind = "Boss") => UNCHANGED C24_RunState
       /\ ante' # ante => blind_outcomes[3] = "Beaten"]_vars

\* ------------------------------------------------------------------------
\* Properties of the blinds of an ante (checked under Spec)
\* ------------------------------------------------------------------------

\* The slot of the current blind (from 1)
C39_Current == current_blind_index + 1

\* blind_outcomes agrees with the position in the ante
C39_Agrees ==
    /\ \A i \in 1..3 :
           i < C39_Current => blind_outcomes[i] \in {"Skipped", "Beaten"}
    /\ \A i \in 1..3 :
           i > C39_Current => blind_outcomes[i] = "Upcoming"
    /\ blind_outcomes[C39_Current] =
           IF ante_phase = "Shop" THEN "Beaten" ELSE "Active"

C34_OnePlayOneScore ==
    [][LET scored == scoring_result # {}
       IN  /\ (PlayHand /\ can_play /\ ~scored) =>
                  /\ hands_remaining' = hands_remaining - 1
                  /\ round_score' = round_score
                  /\ scoring_result' # {}
           /\ scored =>
                  /\ hands_remaining' = hands_remaining
                  /\ scoring_result' \in {scoring_result, {}}
                  /\ \A r \in scoring_result :
                         round_score' = IF scoring_result' = {}
                                        THEN round_score + r.final_score
                                        ELSE round_score
           /\ ~scored => round_score' \in {round_score, 0}
           /\ scored' <=> (scoring_phase' \notin {"NotScoring", "Done"})]_vars

\* A second hand is in the last phase of its animation after a first one
\* was scored and added
C34_Witness ==
    /\ scoring_phase = "FinalScore"
    /\ hands_remaining = 2
    /\ round_score > 0
    /\ scoring_result # {}

\* C35: the deck of a run is conserved: the cards of the draw pile, of the
\* discard pile, of the hand and of the play being scored are 52 together in
\* every state of a run.
C35_DeckConserved ==
    Len(deck.cards) + Len(deck.discard) + Len(hand) + Len(played_cards) = 52

\* ------------------------------------------------------------------------
\* Properties of the debuffs of a run (checked under SpecDebuff)
\* ------------------------------------------------------------------------

\* The cards of draw pile, discard pile and hand
C36_Cards == deck.cards \o deck.discard \o hand

\* C36: a card of the hand, the draw pile or the discard pile is debuffed
\* only when the current blind is a Boss that debuffs the suit of the card;
\* under any other blind no card is debuffed, the cards discarded under an
\* earlier boss included.
C36_DebuffedOnlyUnderSuitBoss ==
    \A i \in 1..Len(C36_Cards) :
        C36_Cards[i].debuffed =>
            /\ blind_type.blind = "Boss"
            /\ C36_Cards[i].suit \in debuff_suit(blind_type.boss)

\* ------------------------------------------------------------------------
\* Properties of a played selection (checked under SpecPlay)
\* ------------------------------------------------------------------------

\* The hand positions (from 1) of the selected cards, ascending
C37_Positions ==
    SelectSeq([i \in 1..Len(hand) |-> i],
              LAMBDA i : \E k \in 1..Len(selected_indices) : selected_indices[k] = i - 1)

\* C37: play_selected returns the cards that selected_cards() reported just
\* before the call, each once, in ascending hand position whatever the order
\* of selection, and takes exactly these out of the hand; the hand type
\* detected on the played cards is the one detected on selected_cards().
C37_PlayedAreSelected ==
    [][Play_play_selected =>
          LET before == selected_cards
              where == C37_Positions
          IN  /\ Len(played_cards') = Len(before)
              /\ \A k \in 1..Len(before) :
                     played_cards'[k] = hand[where[k]]
              /\ \A k \in 1..Len(before) :
                     \E m \in 1..Len(before) : before[k] = played_cards'[m]
              /\ Len(hand') = Len(hand) - Len(before)
              /\ detect_hand(played_cards').hand_type = detect_hand(before).hand_type]_vars

\* The one call of play_selected has played five cards of the hand of
\* eight and left three
C37_Witness ==
    /\ calls = 2
    /\ Len(played_cards) = 5
    /\ Len(hand) = 3
    /\ selected_indices = <<>>

\* ------------------------------------------------------------------------
\* Properties of the cards of a run (checked under SpecCards)
\* ------------------------------------------------------------------------

\* The smaller of two numbers
C31_Min(a, b) == IF a < b THEN a ELSE b

\* C31: under Boss(TheHook) apply_hook_effect moves 2 cards of the hand to
\* the discard pile, or as many as the hand holds when it holds fewer; under
\* any other blind it changes nothing.
C31_HookDiscardsTwo ==
    [][Cards_apply_hook_effect =>
          IF blind_type = Boss("TheHook")
          THEN LET moved == C31_Min(2, Len(hand))
               IN  /\ Len(hand') = Len(hand) - moved
                   /\ Len(deck'.discard) = Len(deck.discard) + moved
                   /\ deck'.cards = deck.cards
                   /\ \A i \in 1..moved :
                          \E j \in 1..Len(hand) :
                              deck'.discard[Len(deck.discard) + i] = hand[j]
          ELSE UNCHANGED <<hand, deck>>]_vars

\* The cards of draw pile, discard pile and hand, by rank and suit
C32_Places == deck.cards \o deck.discard \o hand

\* C32: every card is in at most one of draw pile, discard pile and hand,
\* and in it once.
C32_CardsInOnePlace ==
    LET places == C32_Places
    IN  Cardinality({<<places[i].rank, places[i].suit>> : i \in 1..Len(places)})
            = Len(places)

C32_Witness ==
    /\ calls = MaxCardCalls
    /\ Len(hand) = 6
    /\ Len(deck.discard) = 2
    /\ Len(deck.cards) = 39
    /\ Len(played_cards) = 5

\* C38: every entry of selected_indices is a position of the hand
\* (selected_indices[k] < hand.len()) in every state the methods of the run
\* reach: no method that shortens the hand leaves an index behind.
C38_NoStaleIndex ==
    \A k \in 1..Len(selected_indices) : selected_indices[k] < Len(hand)

\* ------------------------------------------------------------------------
\* Properties of whole runs (checked under SpecRounds)
\* ------------------------------------------------------------------------

\* C12: every StartBlind of a run deals a full hand: right after it the hand
\* holds exactly hand_size (8) cards, whatever blinds, plays, Hook discards
\* and shop visits came before.
C12_FullHandAfterStartBlind ==
    [][StartBlind => Len(hand') = hand_size]_vars

====
